---- MODULE Spec2Model ----
(***************************************************************************)
(* Model of the evidentiary pipeline of afm-ai-backend:                    *)
(*   FactTokenizer -> FactGraph -> FactFilter -> RAGRouter                 *)
(* and of the anti-hallucination verifier (validation/verifier.py) as it   *)
(* is called from qualify_documents.                                       *)
(*                                                                         *)
(* Conventions                                                             *)
(*  - confidences are integers in thousandths (0.30 is 300);               *)
(*  - Python None is the string "None";                                    *)
(*  - token ids are opaque; they are modelled as integers, 999 standing    *)
(*    for the id "tok-999";                                                *)
(*  - a text is modelled by the set of lexical features the code's         *)
(*    regular expressions and keyword lists find in it.                    *)
(***************************************************************************)
EXTENDS Integers, Sequences, FiniteSets, TLC

VARIABLES
    \* ---- verifier (validation/verifier.py, qualify_documents) ----
    vpc,            \* position of the verifier caller
    payload,        \* dict handed to run_full_verification
    facts,          \* fact dicts checked by verify_facts_provenance
    sentence_map,   \* sentence -> token map
    used_tokens,    \* token ids the narrative claims to use
    all_token_ids,  \* token ids collected from the facts
    facts_res,      \* result of verify_facts_provenance
    text_res,       \* result of verify_output_texts
    token_res,      \* result of verify_token_alignment
    sentence_res,   \* result of verify_sentence_token_alignment
    overall_ok,     \* verification["overall_ok"]
    verdict,        \* result["verdict"] of qualify_documents
    \* ---- fact pipeline (api/debug/diagnostics.py) ----
    pc,             \* position of the pipeline caller
    docs,           \* documents handed to FactTokenizer.tokenize
    target_article, \* target_article handed to the Router
    heap,           \* the LegalFact objects; lists hold indices into it
    tokenized,      \* list returned by FactTokenizer.tokenize
    merged,         \* list returned by FactGraph.build
    filtered,       \* list returned by FactFilter.filter_for_qualifier
    routed,         \* list returned by RAGRouter.route_for_qualifier
    primary,        \* the Router's tier lists at its return
    secondary,
    reserve,
    uuid,           \* next fresh uuid
    probe,          \* arguments of a direct call of _confidence
    conf_out,       \* its result
    heap_at_call,   \* the heap as it was when the last stage was called
    rebuilt,        \* list returned by a second FactGraph.build
    run,            \* number of the current pipeline run
    first_out,      \* the facts the first run returned
    valid_articles, \* VALID_ARTICLES of crime_classifier
    classification  \* result of classify_by_tokens

vvars == <<vpc, payload, facts, sentence_map, used_tokens, all_token_ids,
           facts_res, text_res, token_res, sentence_res, overall_ok, verdict>>

pvars == <<pc, docs, target_article, heap, tokenized, merged, filtered, routed,
           primary, secondary, reserve, uuid, probe, conf_out, heap_at_call,
           rebuilt, run, first_out, valid_articles, classification>>

vars == <<vvars, pvars>>

None == "None"

NoProbe == [called |-> FALSE]

\* classify_by_tokens has not been called
NoClassification == [called |-> FALSE]

\* the pipeline has not been started
PipeIdle ==
    /\ pc = "idle"
    /\ docs = <<>>
    /\ target_article = None
    /\ heap = <<>>
    /\ tokenized = <<>>
    /\ merged = <<>>
    /\ filtered = <<>>
    /\ routed = <<>>
    /\ primary = <<>>
    /\ secondary = <<>>
    /\ reserve = <<>>
    /\ uuid = 1
    /\ probe = NoProbe
    /\ conf_out = 0 - 1
    /\ heap_at_call = <<>>
    /\ rebuilt = <<>>
    /\ run = 1
    /\ first_out = <<>>
    /\ valid_articles = <<>>
    /\ classification = NoClassification

\* ------------------------------------------------------------------------
\* Bounds of the explored inputs
\* ------------------------------------------------------------------------
MaxSentences == 2
MaxSources == 2
MaxProvFacts == 1
MaxPayloadFacts == 1

\* ------------------------------------------------------------------------
\* Generic helpers
\* ------------------------------------------------------------------------
Range(s) == {s[i] : i \in 1..Len(s)}

Min(S) == CHOOSE x \in S : \A y \in S : x <= y

RECURSIVE Sorted(_)
\* Python sorted(set): the elements of S in ascending order
Sorted(S) == IF S = {} THEN <<>>
             ELSE LET m == Min(S) IN <<m>> \o Sorted(S \ {m})

\* all sequences over S of length at most n
SeqsUpTo(S, n) == UNION {[1..k -> S] : k \in 0..n}

RECURSIVE SubsetsUpTo(_, _)
\* the subsets of S with at most n elements
SubsetsUpTo(S, n) ==
    IF n = 0 THEN {{}}
    ELSE LET smaller == SubsetsUpTo(S, n - 1)
         IN smaller \cup {T \cup {x} : T \in smaller, x \in S}

\* the lists without repetition over a set of integers, one per subset
IncSeqs(S) == {Sorted(T) : T \in SUBSET S}

\* ------------------------------------------------------------------------
\* Settings (utils/config.py, defaults)
\* ------------------------------------------------------------------------
CONF_THRESH_CRITICAL == 900
CONF_THRESH_DEFAULT == 750
REQUIRE_TWO_SOURCES == TRUE
ENFORCE_CITATIONS == TRUE
RETURN_INSUFFICIENT_ON_FAIL == TRUE

\* ------------------------------------------------------------------------
\* verifier.py : verify_facts_provenance
\* ------------------------------------------------------------------------
\* Integer-valued fields keep integer stand-ins for their non-integer values:
\* a page that is None is 0 (real pages are >= 1), a confidence that is None
\* is -1, a confidence key that is absent is -2, a token id that is None or
\* absent is 0.
NonePage == 0
NoneConf == 0 - 1
MissingConf == 0 - 2
NoneId == 0

\* Python truthiness of a file_id (a string or None)
Falsy(v) == v \in {None, ""}

\* f.get("confidence", 0.0): the default only replaces a missing key
ConfOf(f) == IF f.confidence = MissingConf THEN 0 ELSE f.confidence

\* f.get("critical", False); an absent key reads as FALSE
CriticalOf(f) == f.critical

\* {(file_id, page) for s in srcs if file_id is not None}
UniqSources(srcs) ==
    {<<srcs[i].file_id, srcs[i].page>> : i \in {j \in 1..Len(srcs) : srcs[j].file_id # None}}

Violation(fid, issue) == [fact_id |-> fid, issue |-> issue]

RECURSIVE SourceViolations(_, _)
SourceViolations(fid, srcs) ==
    IF srcs = <<>> THEN <<>>
    ELSE LET s == Head(srcs) IN
         (IF Falsy(s.file_id) THEN <<Violation(fid, "source_missing_file_id")>> ELSE <<>>)
      \o (IF s.page = NonePage THEN <<Violation(fid, "source_missing_page")>> ELSE <<>>)
      \o SourceViolations(fid, Tail(srcs))

\* REQUIRE_TWO_SOURCES and len(uniq) < 2
OnlyOneSourceCheck(f) ==
    REQUIRE_TWO_SOURCES /\ Cardinality(UniqSources(f.sources)) < 2

\* the violations one fact contributes (one iteration of the loop)
FactViolations(f) ==
    IF f.sources = <<>> THEN <<Violation(f.fact_id, "no_sources")>>
    ELSE (IF OnlyOneSourceCheck(f)
            THEN <<Violation(f.fact_id, "only_one_source")>> ELSE <<>>)
      \o (IF CriticalOf(f) /\ ConfOf(f) < CONF_THRESH_CRITICAL
            THEN <<Violation(f.fact_id, "low_confidence_critical")>> ELSE <<>>)
      \o (IF ~CriticalOf(f) /\ ConfOf(f) < CONF_THRESH_DEFAULT
            THEN <<Violation(f.fact_id, "low_confidence_default")>> ELSE <<>>)
      \o SourceViolations(f.fact_id, f.sources)

RECURSIVE AllFactViolations(_)
AllFactViolations(fs) ==
    IF fs = <<>> THEN <<>> ELSE FactViolations(Head(fs)) \o AllFactViolations(Tail(fs))

\* float(None) raises TypeError before anything is returned
ProvenanceRaises(fs) == \E i \in 1..Len(fs) : fs[i].confidence = NoneConf

Raised == [ok |-> FALSE, raised |-> TRUE, violations |-> <<>>]

verify_facts_provenance(fs) ==
    IF ProvenanceRaises(fs) THEN Raised
    ELSE LET v == AllFactViolations(fs) IN
         [ok |-> (v = <<>>), raised |-> FALSE, violations |-> v]

\* ------------------------------------------------------------------------
\* rules_engine.py + verifier.py : verify_output_texts
\* A text is the set of features its regular expressions find:
\*   "date" (DATE_RX), "person" (PERSON_RX), "money" (MONEY_RX),
\*   "citation" (CIT_RX)
\* ------------------------------------------------------------------------
check_text_consistency(text) ==
    [has_persons |-> "person" \in text,
     has_dates   |-> "date" \in text,
     has_money   |-> "money" \in text]

require_inline_citations(text) == "citation" \in text

verify_output_texts(ust, post) ==
    LET checks == [ustanovil |-> check_text_consistency(ust),
                   post |-> check_text_consistency(post)]
        citations_ok == IF ENFORCE_CITATIONS
                          THEN require_inline_citations(ust) /\ require_inline_citations(post)
                          ELSE TRUE
        v == IF ~citations_ok \/ ~checks.ustanovil.has_dates
               THEN (IF RETURN_INSUFFICIENT_ON_FAIL
                       THEN "INSUFFICIENT_EVIDENCE" ELSE "REVIEW_REQUIRED")
               ELSE "OK"
    IN [verdict |-> v, citations_ok |-> citations_ok, checks |-> checks]

\* ------------------------------------------------------------------------
\* verifier.py : verify_token_alignment
\* ------------------------------------------------------------------------
verify_token_alignment(used, allIds) ==
    LET u == Range(used)
        allowed == Range(allIds)
        unknown == Sorted(u \ allowed)
        unused == Sorted(allowed \ u)
    IN [ok |-> (Len(unknown) = 0),
        total_used |-> Cardinality(u),
        total_available |-> Cardinality(allowed),
        unknown_tokens |-> unknown,
        unused_tokens |-> unused]

\* ------------------------------------------------------------------------
\* verifier.py : verify_sentence_token_alignment
\* A sentence text is "" (empty), " " (blank) or a non-blank string.
\* ------------------------------------------------------------------------
\* (s.get("text") or "").strip()
Strip(t) == IF t \in {None, "", " "} THEN "" ELSE t

SViolation(idx, issue, toks) == [index |-> idx, issue |-> issue, tokens |-> toks]

\* variant of the inner loop that never reports an unknown token
UnknownInSentence_Skip(idx, toks, allSet) == <<>>

RECURSIVE UnknownInSentence(_, _, _)
\* the inner loop over the tokens of one sentence
UnknownInSentence(idx, toks, allSet) ==
    IF toks = <<>> THEN <<>>
    ELSE (IF Head(toks) \notin allSet
            THEN <<SViolation(idx, "unknown_token_in_sentence", <<Head(toks)>>)>>
            ELSE <<>>)
         \o UnknownInSentence(idx, Tail(toks), allSet)

\* a loop body that checks the text and the token list of a sentence and
\* not the tokens themselves
TextAndTokenListOnly(idx, s, allSet) ==
    IF Strip(s.text) = "" THEN <<SViolation(idx, "empty_sentence_text", <<>>)>>
    ELSE IF s.tokens = <<>> THEN <<SViolation(idx, "sentence_without_tokens", <<>>)>>
    ELSE <<>>

\* one iteration of the loop over sentence_map: the violations it appends
SentenceViolations(idx, s, allSet) ==
    IF Strip(s.text) = "" THEN <<SViolation(idx, "empty_sentence_text", <<>>)>>
    ELSE IF s.tokens = <<>> THEN <<SViolation(idx, "sentence_without_tokens", <<>>)>>
    ELSE UnknownInSentence(idx, s.tokens, allSet)

\* ... and the tokens it adds to from_sentences
SentenceTokens(s) ==
    IF Strip(s.text) = "" \/ s.tokens = <<>> THEN {} ELSE Range(s.tokens)

RECURSIVE LoopViolations(_, _, _)
LoopViolations(sm, idx, allSet) ==
    IF idx > Len(sm) THEN <<>>
    ELSE SentenceViolations(idx, sm[idx], allSet) \o LoopViolations(sm, idx + 1, allSet)

FromSentences(sm) == UNION {SentenceTokens(sm[i]) : i \in 1..Len(sm)}

verify_sentence_token_alignment(sm, used, allIds) ==
    IF sm = <<>>
      THEN [ok |-> FALSE, sentence_count |-> 0, mapped_tokens |-> <<>>,
            violations |-> <<SViolation(0, "no_sentence_map", <<>>)>>]
      ELSE LET allSet == Range(allIds)
               from_sentences == FromSentences(sm)
               used_set == Range(used)
               used_not_in_sentences == Sorted(used_set \ from_sentences)
               in_sentences_not_in_used == Sorted(from_sentences \ used_set)
               violations ==
                   LoopViolations(sm, 1, allSet)
                   \o (IF used_not_in_sentences # <<>>
                         THEN <<SViolation(0, "used_tokens_without_sentence",
                                           used_not_in_sentences)>>
                         ELSE <<>>)
                   \o (IF in_sentences_not_in_used # <<>>
                         THEN <<SViolation(0, "sentence_tokens_not_marked_used",
                                           in_sentences_not_in_used)>>
                         ELSE <<>>)
           IN [ok |-> (Len(violations) = 0),
               sentence_count |-> Len(sm),
               mapped_tokens |-> Sorted(from_sentences),
               violations |-> violations]

\* ------------------------------------------------------------------------
\* verifier.py : run_full_verification
\* ------------------------------------------------------------------------
\* payload.get("sentences", []) or []
PayloadSentences(p) == IF p.has_sentences THEN p.sentences ELSE <<>>

RECURSIVE CollectTokenIds(_)
\* [f.get("token_id") for f in facts if isinstance(f, dict) and f.get("token_id")]
CollectTokenIds(fs) ==
    IF fs = <<>> THEN <<>>
    ELSE (IF Head(fs).token_id # NoneId THEN <<Head(fs).token_id>> ELSE <<>>)
         \o CollectTokenIds(Tail(fs))

OverallOk(fr, tr, kr, sr) == fr.ok /\ tr.verdict = "OK" /\ kr.ok /\ sr.ok

\* result["verdict"] in qualify_documents (the try branch)
VerdictOf(ok, tr) == IF ok THEN "OK" ELSE tr.verdict

\* ------------------------------------------------------------------------
\* Input domains of the verifier
\* ------------------------------------------------------------------------
\* 1 and 2 are ids that facts may carry, 999 is carried by no fact
FactTokenIds == {1, 2}
TokenIds == FactTokenIds \cup {999}

SentTexts == {"", " ", "s"}

SentenceDicts == [text : SentTexts, tokens : IncSeqs(TokenIds)]

SentenceMaps == SeqsUpTo(SentenceDicts, MaxSentences)

NoRes == [ok |-> FALSE]
NoPayload == [has_sentences |-> FALSE]

\* ------------------------------------------------------------------------
\* Specification SpecAlign: the two alignment checks called on arbitrary
\* arguments, in the order run_full_verification calls them
\* ------------------------------------------------------------------------
InitAlign ==
    /\ PipeIdle
    /\ vpc = "start"
    /\ sentence_map \in SentenceMaps
    /\ used_tokens \in IncSeqs(TokenIds)
    /\ all_token_ids \in IncSeqs(FactTokenIds)
    /\ payload = NoPayload
    /\ facts = <<>>
    /\ facts_res = NoRes
    /\ text_res = NoRes
    /\ token_res = NoRes
    /\ sentence_res = NoRes
    /\ overall_ok = FALSE
    /\ verdict = None

CallVerifyTokenAlignment ==
    /\ UNCHANGED pvars
    /\ vpc = "start"
    /\ token_res' = verify_token_alignment(used_tokens, all_token_ids)
    /\ vpc' = "tokens_checked"
    /\ UNCHANGED <<payload, facts, sentence_map, used_tokens, all_token_ids,
                   facts_res, text_res, sentence_res, overall_ok, verdict>>

CallVerifySentenceTokenAlignment ==
    /\ UNCHANGED pvars
    /\ vpc = "tokens_checked"
    /\ sentence_res' = verify_sentence_token_alignment(sentence_map, used_tokens, all_token_ids)
    /\ vpc' = "sentences_checked"
    /\ UNCHANGED <<payload, facts, sentence_map, used_tokens, all_token_ids,
                   facts_res, text_res, token_res, overall_ok, verdict>>

NextAlign == CallVerifyTokenAlignment \/ CallVerifySentenceTokenAlignment

SpecAlign == InitAlign /\ [][NextAlign]_vars

\* ------------------------------------------------------------------------
\* C1 (as amended): verify_sentence_token_alignment returns ok = true if and
\* only if the sentence map is non-empty, every sentence has non-blank text,
\* (a) every used token id exists among the fact token ids, (b) every
\* sentence references at least one token id that exists among the fact
\* token ids, and (c) the set of used token ids equals the union of the
\* token ids referenced by the sentences.
\* ------------------------------------------------------------------------
SentenceRefs(s) == Range(s.tokens)

AllRefs(sm) == UNION {SentenceRefs(sm[i]) : i \in 1..Len(sm)}

UsedExist == Range(used_tokens) \subseteq Range(all_token_ids)

EverySentenceHasValidToken ==
    \A i \in 1..Len(sentence_map) :
        SentenceRefs(sentence_map[i]) \cap Range(all_token_ids) # {}

UsedEqualsUnion == Range(used_tokens) = AllRefs(sentence_map)

EverySentenceHasText ==
    \A i \in 1..Len(sentence_map) : sentence_map[i].text \notin {"", " "}

C1_Amended ==
    vpc = "sentences_checked" =>
        (sentence_res.ok <=>
            /\ sentence_map # <<>>
            /\ EverySentenceHasText
            /\ UsedExist
            /\ EverySentenceHasValidToken
            /\ UsedEqualsUnion)

\* C1 as stated: ok = true iff (a), (b) and (c)
C1_Original ==
    vpc = "sentences_checked" =>
        (sentence_res.ok <=>
            (UsedExist /\ EverySentenceHasValidToken /\ UsedEqualsUnion))

\* a two-sentence map that passes, and a map that fails on (c) only
C1_Witness ==
    /\ vpc = "sentences_checked"
    /\ sentence_res.ok
    /\ Len(sentence_map) = 2
    /\ Cardinality(Range(used_tokens)) = 2

\* ------------------------------------------------------------------------
\* Specification SpecProv: verify_facts_provenance on arbitrary fact dicts
\* ------------------------------------------------------------------------
SourceDicts ==
    {[file_id |-> "A", page |-> 1], [file_id |-> "A", page |-> 2],
     [file_id |-> None, page |-> 1], [file_id |-> "A", page |-> NonePage]}

\* below the default threshold, between the two thresholds, above both,
\* key absent, value None
ProvConfidences == {700, 800, 950, MissingConf, NoneConf}

ProvFactDicts ==
    [fact_id : {"f1"}, token_id : {NoneId}, tokens : {<<>>},
     sources : SeqsUpTo(SourceDicts, MaxSources),
     confidence : ProvConfidences, critical : BOOLEAN]

InitProv ==
    /\ PipeIdle
    /\ vpc = "start"
    /\ facts \in SeqsUpTo(ProvFactDicts, MaxProvFacts)
    /\ payload = NoPayload
    /\ sentence_map = <<>>
    /\ used_tokens = <<>>
    /\ all_token_ids = <<>>
    /\ facts_res = NoRes
    /\ text_res = NoRes
    /\ token_res = NoRes
    /\ sentence_res = NoRes
    /\ overall_ok = FALSE
    /\ verdict = None

CallVerifyFactsProvenance ==
    /\ UNCHANGED pvars
    /\ vpc = "start"
    /\ facts_res' = verify_facts_provenance(facts)
    /\ vpc' = "provenance_checked"
    /\ UNCHANGED <<payload, facts, sentence_map, used_tokens, all_token_ids,
                   text_res, token_res, sentence_res, overall_ok, verdict>>

NextProv == CallVerifyFactsProvenance

SpecProv == InitProv /\ [][NextProv]_vars

HasViolation(res, fid, issue) ==
    \E i \in 1..Len(res.violations) :
        res.violations[i].fact_id = fid /\ res.violations[i].issue = issue

\* ------------------------------------------------------------------------
\* C4: for every fact that has at least one source, 'only_one_source' is
\* reported if and only if the fact is critical and its sources cover fewer
\* than two distinct (file_id, page) pairs; a non-critical fact with exactly
\* one source and confidence at or above the default threshold yields no
\* violation.
\* ------------------------------------------------------------------------
C4_Claim ==
    (vpc = "provenance_checked" /\ ~facts_res.raised) =>
        \A i \in 1..Len(facts) :
            LET f == facts[i] IN
            /\ f.sources # <<>> =>
                 (HasViolation(facts_res, f.fact_id, "only_one_source")
                    <=> (f.critical /\ Cardinality(UniqSources(f.sources)) < 2))
            /\ (Len(facts) = 1 /\ ~f.critical /\ Len(f.sources) = 1
                  /\ f.sources[1].file_id = "A" /\ f.sources[1].page # NonePage
                  /\ ConfOf(f) >= CONF_THRESH_DEFAULT)
                 => facts_res.ok

\* ------------------------------------------------------------------------
\* Specification SpecFull: qualify_documents, step 14 - the result dict is
\* handed to run_full_verification and the verdict is derived from it.
\* A fact dict may carry a top-level token_id and a nested list of tokens
\* (LegalFact.to_payload); only the ids of the nested tokens are kept.
\* ------------------------------------------------------------------------
OneSource == <<[file_id |-> "A", page |-> 1]>>
TwoSources == <<[file_id |-> "A", page |-> 1], [file_id |-> "A", page |-> 2]>>

PayloadFactDicts ==
    [fact_id : {"f1"}, token_id : {NoneId} \cup FactTokenIds,
     tokens : IncSeqs(FactTokenIds),
     sources : {OneSource, TwoSources},
     confidence : {800}, critical : {FALSE}]

TextFeatures == SUBSET {"date", "citation"}

\* the 'sentences' key is absent, or holds no sentence or one sentence
PayloadSentenceDicts == [text : {" ", "s"}, tokens : IncSeqs(TokenIds)]

Payloads ==
    [facts : SeqsUpTo(PayloadFactDicts, MaxPayloadFacts),
     established_text : TextFeatures,
     final_postanovlenie : SUBSET {"citation"},
     used_tokens : IncSeqs(TokenIds),
     has_sentences : {TRUE},
     sentences : {<<>>} \cup {<<sd>> : sd \in PayloadSentenceDicts}]
    \cup
    [facts : SeqsUpTo(PayloadFactDicts, MaxPayloadFacts),
     established_text : TextFeatures,
     final_postanovlenie : SUBSET {"citation"},
     used_tokens : IncSeqs(TokenIds),
     has_sentences : {FALSE},
     sentences : {<<>>}]

InitFull ==
    /\ PipeIdle
    /\ vpc = "start"
    /\ payload \in Payloads
    /\ facts = <<>>
    /\ sentence_map = <<>>
    /\ used_tokens = <<>>
    /\ all_token_ids = <<>>
    /\ facts_res = NoRes
    /\ text_res = NoRes
    /\ token_res = NoRes
    /\ sentence_res = NoRes
    /\ overall_ok = FALSE
    /\ verdict = None

\* verification = run_full_verification(result)
RunFullVerification ==
    /\ UNCHANGED pvars
    /\ vpc = "start"
    /\ LET fs == payload.facts
           ut == payload.used_tokens
           sm == PayloadSentences(payload)
           ids == CollectTokenIds(fs)
           fr == verify_facts_provenance(fs)
           tr == verify_output_texts(payload.established_text, payload.final_postanovlenie)
           kr == verify_token_alignment(ut, ids)
           sr == verify_sentence_token_alignment(sm, ut, ids)
       IN /\ facts' = fs
          /\ used_tokens' = ut
          /\ sentence_map' = sm
          /\ all_token_ids' = ids
          /\ facts_res' = fr
          /\ IF fr.raised
               THEN /\ vpc' = "raised"
                    /\ UNCHANGED <<text_res, token_res, sentence_res, overall_ok>>
               ELSE /\ vpc' = "verified"
                    /\ text_res' = tr
                    /\ token_res' = kr
                    /\ sentence_res' = sr
                    /\ overall_ok' = OverallOk(fr, tr, kr, sr)
    /\ UNCHANGED <<payload, verdict>>

\* result["verdict"] = ... (try branch), "VERIFICATION_FAILED" (except branch)
SetVerdict ==
    /\ UNCHANGED pvars
    /\ vpc \in {"verified", "raised"}
    /\ verdict' = IF vpc = "raised" THEN "VERIFICATION_FAILED"
                  ELSE VerdictOf(overall_ok, text_res)
    /\ vpc' = "done"
    /\ UNCHANGED <<payload, facts, sentence_map, used_tokens, all_token_ids,
                   facts_res, text_res, token_res, sentence_res, overall_ok>>

NextFull == RunFullVerification \/ SetVerdict

SpecFull == InitFull /\ [][NextFull]_vars

\* ------------------------------------------------------------------------
\* C2: a result that carries no sentence-to-token map is never accepted as
\* verified: verdict = 'OK' only if verification.overall_ok is true, and
\* overall_ok is false whenever the payload has no (or an empty) 'sentences'
\* map.
\* ------------------------------------------------------------------------
NoSentenceMap == ~payload.has_sentences \/ payload.sentences = <<>>

C2_Claim ==
    vpc = "done" =>
        /\ verdict = "OK" => overall_ok
        /\ NoSentenceMap => ~overall_ok

\* ------------------------------------------------------------------------
\* C3: tokens.unknown_tokens is exactly the sorted list of used token ids
\* that are not the token_id of any token belonging to any fact of
\* payload.facts, and tokens.ok is false exactly when that list is
\* non-empty; the id 999 ('tok-999'), carried by no fact, is reported.
\* ------------------------------------------------------------------------
\* the ids of the tokens that belong to the facts
TokenIdsOfFacts(fs) == UNION {Range(fs[i].tokens) : i \in 1..Len(fs)}

C3_Claim ==
    vpc \in {"verified", "done"} =>
        /\ token_res.unknown_tokens
             = Sorted(Range(payload.used_tokens) \ TokenIdsOfFacts(payload.facts))
        /\ token_res.ok <=> (token_res.unknown_tokens = <<>>)
        /\ Range(payload.used_tokens) = {999} => token_res.unknown_tokens = <<999>>

\* ========================================================================
\* The fact pipeline: FactTokenizer -> FactGraph -> FactFilter -> RAGRouter
\* ========================================================================
\* A sentence is modelled by the set of lexemes it is made of (written in a
\* fixed order and separated by commas) and by its spacing.  Each lexeme is
\* a concrete phrase; what the tokenizer's regular expressions and keyword
\* lists find in it is tabulated below.
\*
\*   vopros "Vopros:"              amount "500 000 tenge"   usdt "100 usdt"
\*   date "12.03.2024"             fio "Ivanov Sergej"      address "ul. Abaya Kunanbaeva"
\*   poluchil "poluchil"           prisvoil "prisvoil"      perevel "perevel"
\*   obman "obmanul"               vlozhil "vlozhil"        piramida "finansovaya piramida"
\*   shema "shema"                 proekt "proekt <Alfa>"   platforma "platforma <Beta>"
\*   kompania "kompaniya <Gamma>"  kaspi "kaspi"            iban "KZ123456789012345678"
\*   wallet "wallet"               cryptoaddr "0x5290...9EE7"
\*   admin "administrator"         poterp "poterpevshij"    vkladchik "vkladchik"
\*   podozr "podozrevaemyj"        svidetel "svidetel"      mne "mne"
\*   prava "razyasneny prava"      rospis "oznakomlen pod rospis"
\*   artref "st. 190 UK RK"        phone "+7 701 123 45 67" plain "togda"
\*   q "?" (the sentence ends with a question mark)
Lexemes ==
    {"vopros", "amount", "usdt", "date", "fio", "address", "poluchil", "prisvoil",
     "perevel", "obman", "vlozhil", "piramida", "shema", "proekt", "platforma",
     "kompania", "kaspi", "iban", "wallet", "cryptoaddr", "admin", "poterp",
     "vkladchik", "podozr", "svidetel", "mne", "prava", "rospis", "artref",
     "phone", "plain", "q"}

Row(l, t, v) == [lex |-> l, type |-> t, value |-> v]

\* _extract_tokens: every add(type, value) call a lexeme causes, in the
\* order in which the function makes them
ExtractionTable ==
    << Row("proekt", "entity", "Alfa"), Row("proekt", "project", "Alfa"),
       Row("platforma", "entity", "Beta"), Row("platforma", "platform", "Beta"),
       Row("kompania", "entity", "Gamma"), Row("kompania", "organization", "Gamma"),
       Row("amount", "amount", "500 000 tenge"),
       Row("usdt", "amount", "100 usdt"),
       Row("date", "date", "12.03.2024"),
       Row("fio", "person", "Ivanov Sergej"),
       Row("address", "address", "Abaya Kunanbaeva"),
       Row("phone", "phone", "7 701 123 45 67"),
       Row("iban", "account", "KZ123456789012345678"),
       Row("cryptoaddr", "crypto", "0x52908400098527886E0F7030069857D2E4169EE7"),
       Row("artref", "article_ref", "UK"),
       Row("kaspi", "channel", "kaspi"),
       Row("usdt", "crypto_flag", "usdt"),
       Row("wallet", "crypto_flag", "wallet"),
       Row("obman", "fraud_flag", "obman"),
       Row("vlozhil", "invest_flag", "vlozh"),
       Row("vkladchik", "invest_flag", "vklad"),
       Row("poluchil", "economic_flag", "poluchil"),
       Row("perevel", "economic_flag", "perevel"),
       Row("admin", "admin_flag", "administrator"),
       Row("shema", "scheme_flag", "shema"),
       Row("piramida", "scheme_flag", "finansovaya piramida"),
       Row("prava", "processual_flag", "razyasneny prava"),
       Row("poterp", "role_label", "victim"),
       Row("vkladchik", "role_label", "victim"),
       Row("podozr", "role_label", "suspect"),
       Row("svidetel", "role_label", "witness") >>

\* lexemes that contain one of FIRST_PERSON as a substring
FirstPersonLex == {"mne", "address", "piramida", "kompania", "podozr", "prava"}
\* lexemes that contain one of SUSPECT_VERBS
SuspectVerbLex == {"poluchil", "prisvoil"}
\* "vopros:" / "?" in the sentence
QuestionLex == {"vopros", "q"}
\* the fact markers of _is_pure_question
FactMarkerLex == {"amount", "usdt", "perevel", "vlozhil", "vkladchik", "piramida",
                  "platforma", "proekt"}
\* "poterpev" in low
PoterpevLex == {"poterp"}
\* "podozrevaem" / "obvinyaem" / "organizator" in low
SuspectWordLex == {"podozr"}
\* _article_hints
Hint190Lex == {"obman"}
Hint217Lex == {"piramida", "vkladchik"}
\* FactFilter.PROCESSUAL_KEYWORDS
ProcessualLex == {"prava", "rospis"}

Has(sent, L) == sent.lex \cap L # {}

\* a sentence: its lexemes and whether its words are separated by one space
\* or by two
Sent(L) == [lex |-> L, spacing |-> "single"]

NoText == [lex |-> {}, spacing |-> "none"]

RECURSIVE AddAll(_, _, _)
\* the closure add() of _extract_tokens: a (type, value) pair is added once
AddAll(rows, seen, acc) ==
    IF rows = <<>> THEN acc
    ELSE LET r == Head(rows)
             key == <<r.type, r.value>>
         IN IF key \in seen THEN AddAll(Tail(rows), seen, acc)
            ELSE AddAll(Tail(rows), seen \cup {key},
                        Append(acc, [type |-> r.type, value |-> r.value]))

\* the (type, value) pairs _extract_tokens returns for a sentence
ExtractPairs(sent) ==
    LET Mine(r) == r.lex \in sent.lex
    IN AddAll(SelectSeq(ExtractionTable, Mine), {}, <<>>)

SourceRef(file_id, page) == [file_id |-> file_id, page |-> page]

\* tokens that cite the page after the one of the document
TokensOfNextPage(sent, file_id, page, fresh) ==
    LET pairs == ExtractPairs(sent)
    IN [i \in 1..Len(pairs) |->
          [token_id |-> fresh + i - 1, type |-> pairs[i].type,
           value |-> pairs[i].value, source |-> SourceRef(file_id, page + 1)]]

\* _extract_tokens: FactToken objects; fresh is the first unused uuid
ExtractTokens(sent, file_id, page, fresh) ==
    LET pairs == ExtractPairs(sent)
    IN [i \in 1..Len(pairs) |->
          [token_id |-> fresh + i - 1, type |-> pairs[i].type,
           value |-> pairs[i].value, source |-> SourceRef(file_id, page)]]

TypesOf(tokens) == {tokens[i].type : i \in 1..Len(tokens)}

\* _is_pure_question
IsPureQuestion(sent) ==
    IF ~Has(sent, QuestionLex) THEN FALSE
    ELSE IF Has(sent, FactMarkerLex) THEN FALSE
    ELSE TRUE

CRIMINAL_TYPES ==
    {"amount", "economic_flag", "fraud_flag", "invest_flag", "scheme_flag",
     "crypto_flag", "crypto", "channel", "account", "entity", "project",
     "platform", "organization"}

\* _is_pure_victim_subjective
IsPureVictimSubjective(sent, tokens) ==
    IF ~Has(sent, FirstPersonLex) THEN FALSE
    ELSE IF Has(sent, SuspectWordLex) THEN FALSE
    ELSE IF \E i \in 1..Len(tokens) :
                tokens[i].type = "role_label" /\ tokens[i].value \in {"suspect", "organizer"}
         THEN FALSE
    ELSE IF TypesOf(tokens) \cap CRIMINAL_TYPES # {} THEN FALSE
    ELSE TRUE

\* a tokenizer that takes the type of the first token as the role
RoleOfFirstToken(tokens, sent) ==
    IF tokens = <<>> THEN "generic_fact" ELSE tokens[1].type

\* _detect_role
DetectRole(tokens, sent) ==
    LET types == TypesOf(tokens)
        victimLabel == \E i \in 1..Len(tokens) :
                          tokens[i].type = "role_label" /\ tokens[i].value = "victim"
        loss == "amount" \in types \/ "economic_flag" \in types \/ "invest_flag" \in types
    IN IF "amount" \in types /\ Has(sent, SuspectVerbLex) THEN "suspect_action"
       ELSE IF "fraud_flag" \in types /\ "amount" \in types THEN "fraud_action"
       ELSE IF "invest_flag" \in types /\ ("amount" \in types \/ "economic_flag" \in types)
            THEN "investment_event"
       ELSE IF "invest_flag" \in types THEN "investment_context"
       ELSE IF "scheme_flag" \in types THEN "scheme_marker"
       ELSE IF types \cap {"entity", "project", "platform", "organization"} # {}
            THEN "entity_reference"
       ELSE IF "admin_flag" \in types THEN "admin_action"
       ELSE IF "crypto_flag" \in types \/ "crypto" \in types THEN "crypto_operation"
       ELSE IF "channel" \in types \/ "account" \in types THEN "digital_transfer"
       ELSE IF "economic_flag" \in types THEN "economic_action"
       ELSE IF victimLabel THEN (IF loss THEN "victim_loss" ELSE "victim_statement")
       ELSE IF Has(sent, PoterpevLex) THEN (IF loss THEN "victim_loss" ELSE "victim_statement")
       ELSE IF "role_label" \in types THEN "role_statement"
       ELSE "generic_fact"

\* _article_hints
ArticleHints(sent) ==
    (IF Has(sent, Hint190Lex) THEN <<"190">> ELSE <<>>)
    \o (IF Has(sent, Hint217Lex) THEN <<"217">> ELSE <<>>)

\* the weights of _confidence, in thousandths; weights.get(t_type, 0.05)
Weight(t) ==
    CASE t \in {"entity", "project", "platform", "amount", "invest_flag", "scheme_flag"} -> 400
      [] t \in {"organization", "economic_flag", "crypto"} -> 350
      [] t = "fraud_flag" -> 450
      [] t = "crypto_flag" -> 300
      [] t \in {"channel", "account"} -> 250
      [] t = "date" -> 120
      [] t = "person" -> 100
      [] OTHER -> 50

RECURSIVE SumWeights(_)
SumWeights(types) ==
    IF types = {} THEN 0
    ELSE LET t == CHOOSE x \in types : TRUE IN Weight(t) + SumWeights(types \ {t})

\* a score that is not capped
Uncapped(score) == score

\* the ceiling of _confidence: min(1.0, round(score, 3))
Ceiling(score) == IF score > 1000 THEN 1000 ELSE score

\* a confidence without the early return of the suspect_action branch
NoDominantSignal(types, role, firstPerson, suspectVerb) ==
    LET base == SumWeights(types)
        boosted == IF role \in {"fraud_action", "investment_event"} /\ "amount" \in types
                     THEN base + 300 ELSE base
        penalised == IF firstPerson /\ "fraud_flag" \in types /\ "amount" \notin types
                       THEN (boosted * 8) \div 10 ELSE boosted
        score == Ceiling(penalised)
    IN IF score < 50 THEN 0 ELSE score

\* _confidence(fact): types of the fact's tokens, its role, and whether its
\* text holds a first-person marker / a suspect verb; result in thousandths
Confidence(types, role, firstPerson, suspectVerb) ==
    LET base == SumWeights(types)
        boosted == IF role \in {"fraud_action", "investment_event"} /\ "amount" \in types
                     THEN base + 300 ELSE base
        \* score *= 0.8 (all scores are multiples of ten thousandths)
        penalised == IF firstPerson /\ "fraud_flag" \in types /\ "amount" \notin types
                       THEN (boosted * 8) \div 10 ELSE boosted
        score == Ceiling(penalised)
    IN IF role = "suspect_action" /\ "amount" \in types /\ suspectVerb THEN 1000
       ELSE IF score < 50 THEN 0
       ELSE score

\* ------------------------------------------------------------------------
\* FactTokenizer.tokenize
\* ------------------------------------------------------------------------
\* a document: file_id, page, and its text as the list of sentences
\* split_into_sentences returns for it (<<>> is the empty text); file_id is
\* None when the key is missing
Doc(file_id, page, text) ==
    [file_id |-> file_id, page |-> page, text |-> text, text_type |-> "str"]

\* a document whose text is a non-empty value that is not a str (a number,
\* a list, bytes)
NonStringDoc(file_id, page) ==
    [file_id |-> file_id, page |-> page, text |-> <<>>, text_type |-> "other"]

\* (doc.get("text") or "").strip() and _validate: a non-empty value that is
\* not a str has no strip() (AttributeError), bytes fail isinstance(text,
\* str) (TypeError)
TextRaises(doc) == doc.text_type # "str"

\* SourceRef(file_id=file_id, page=page): file_id is declared str, the
\* model validation rejects None (ValidationError)
SourceRefRaises(file_id) == file_id = None

\* _context_windows
ContextBefore(sentences, i) == IF i > 1 THEN sentences[i - 1] ELSE NoText
ContextAfter(sentences, i) == IF i + 1 <= Len(sentences) THEN sentences[i + 1] ELSE NoText

\* the LegalFact tokenize builds for sentence i (Python index i - 1) of a
\* document; the tokens take the first fresh uuids, the fact the next one
NewFact(doc, sentences, i, fresh) ==
    LET sent == sentences[i]
        tokens == ExtractTokens(sent, doc.file_id, doc.page, fresh)
        role == DetectRole(tokens, sent)
    IN [fact_id |-> fresh + Len(tokens),
        tokens |-> tokens,
        source_refs |-> <<SourceRef(doc.file_id, doc.page)>>,
        span_text |-> sent,
        text |-> sent,
        sentence_index |-> i - 1,
        context_before |-> ContextBefore(sentences, i),
        context_after |-> ContextAfter(sentences, i),
        role |-> role,
        event_type |-> role,
        article_hints |-> ArticleHints(sent),
        confidence |-> Confidence(TypesOf(tokens), role, Has(sent, FirstPersonLex),
                                  Has(sent, SuspectVerbLex))]

\* the body of the loop over the sentences of a document: TRUE when the
\* sentence is skipped by one of the continue statements before the fact
\* is built
SkippedEarly(sent) ==
    \/ sent.lex = {}
    \/ IsPureQuestion(sent)
    \/ ExtractPairs(sent) = <<>>
    \/ IsPureVictimSubjective(sent, ExtractTokens(sent, None, 1, 1))

RECURSIVE KeepEverySentence(_, _, _, _)
\* a loop without the two continue statements "if not tokens" and
\* "if fact.confidence <= 0"
KeepEverySentence(doc, sentences, i, acc) ==
    IF i > Len(sentences) THEN acc
    ELSE IF sentences[i].lex = {} \/ IsPureQuestion(sentences[i])
              \/ IsPureVictimSubjective(sentences[i],
                                        ExtractTokens(sentences[i], None, 1, 1))
           THEN KeepEverySentence(doc, sentences, i + 1, acc)
    ELSE LET f == NewFact(doc, sentences, i, acc.fresh)
         IN KeepEverySentence(doc, sentences, i + 1,
                              [acc EXCEPT !.facts = Append(@, f), !.fresh = f.fact_id + 1])

RECURSIVE TokenizeSentences(_, _, _, _)
\* acc = [facts, fresh, raised]; raised: an exception left tokenize
TokenizeSentences(doc, sentences, i, acc) ==
    IF i > Len(sentences) THEN acc
    ELSE IF sentences[i].lex = {} \/ IsPureQuestion(sentences[i])
           THEN TokenizeSentences(doc, sentences, i + 1, acc)
    ELSE IF SourceRefRaises(doc.file_id) THEN [acc EXCEPT !.raised = TRUE]
    ELSE IF SkippedEarly(sentences[i]) THEN TokenizeSentences(doc, sentences, i + 1, acc)
    ELSE LET f == NewFact(doc, sentences, i, acc.fresh)
             used == [acc EXCEPT !.fresh = f.fact_id + 1]
         IN IF f.confidence <= 0 THEN TokenizeSentences(doc, sentences, i + 1, used)
            ELSE TokenizeSentences(doc, sentences, i + 1,
                                   [used EXCEPT !.facts = Append(@, f)])

RECURSIVE TokenizeDocs(_, _)
\* FactTokenizer.tokenize(docs): [facts, fresh, raised]
TokenizeDocs(ds, acc) ==
    IF ds = <<>> \/ acc.raised THEN acc
    ELSE LET doc == Head(ds)
         IN IF TextRaises(doc) THEN [acc EXCEPT !.raised = TRUE]
            ELSE IF doc.text = <<>> THEN TokenizeDocs(Tail(ds), acc)
            ELSE TokenizeDocs(Tail(ds), TokenizeSentences(doc, doc.text, 1, acc))

\* the accumulator at the start of tokenize
NoFacts(fresh) == [facts |-> <<>>, fresh |-> fresh, raised |-> FALSE]

\* the references to the objects appended to the heap
NewRefs(h, n) == [i \in 1..n |-> Len(h) + i]

\* ------------------------------------------------------------------------
\* FactGraph.build
\* ------------------------------------------------------------------------
\* _normalize_span: lower-case, strip, collapse runs of whitespace
NormalizeSpan(span) ==
    IF span.lex = {} THEN NoText
    ELSE [span EXCEPT !.spacing = "single"]

Pair(t) == <<t.type, t.value>>

PairsOf(tokens) == {Pair(tokens[i]) : i \in 1..Len(tokens)}

\* tuple(sorted((t.type, t.value) for t in f.tokens)): two such tuples are
\* equal iff the pairs occur the same number of times
TokensKey(tokens) ==
    [p \in PairsOf(tokens) |-> Cardinality({i \in 1..Len(tokens) : Pair(tokens[i]) = p})]

\* a key that leaves the sentence index out
KeyWithoutIndex(f) == <<TokensKey(f.tokens), NormalizeSpan(f.span_text)>>

MergeKey(f) == <<TokensKey(f.tokens), NormalizeSpan(f.span_text), f.sentence_index>>

SrcKey(s) == <<s.file_id, s.page>>

SrcKeys(refs) == {SrcKey(refs[i]) : i \in 1..Len(refs)}

\* [SourceRef(file_id=fid, page=pg) for fid, pg in combined]: the list
\* follows the iteration order of a set, given here by ord
OrderSet(S, ord) ==
    LET In(k) == k \in S
        ks == SelectSeq(ord, In)
    IN [i \in 1..Len(ks) |-> SourceRef(ks[i][1], ks[i][2])]

\* a merge that appends every token of the merged-away fact
AppendEvery(existing, new) == existing \o new

RECURSIVE AppendUnseen(_, _)
\* step 2 of the merge: tokens whose (type, value) is not yet in existing
AppendUnseen(existing, new) ==
    IF new = <<>> THEN existing
    ELSE IF Pair(Head(new)) \in PairsOf(existing) THEN AppendUnseen(existing, Tail(new))
    ELSE AppendUnseen(Append(existing, Head(new)), Tail(new))

\* list(sorted(hints)) for the two hints the tokenizer produces
SortedHints(S) ==
    LET In(x) == x \in S IN SelectSeq(<<"190", "217">>, In)

\* a merge that leaves existing as it is
KeepExisting(existing, f, ord) == existing

\* the merge of f into existing (lines 57-88)
Merge(existing, f, ord) ==
    [existing EXCEPT
        !.source_refs = OrderSet(SrcKeys(existing.source_refs) \cup SrcKeys(f.source_refs), ord),
        !.tokens = AppendUnseen(existing.tokens, f.tokens),
        !.article_hints = SortedHints(Range(existing.article_hints) \cup Range(f.article_hints))]

RECURSIVE MergeRoleFacts(_, _, _)
\* _merge_role_facts; acc = [heap, out]: out is list(unique_map.values())
MergeRoleFacts(items, ord, acc) ==
    IF items = <<>> THEN acc
    ELSE LET r == Head(items)
             key == MergeKey(acc.heap[r])
             hit == {j \in 1..Len(acc.out) : MergeKey(acc.heap[acc.out[j]]) = key}
         IN IF hit = {}
              THEN MergeRoleFacts(Tail(items), ord, [acc EXCEPT !.out = Append(@, r)])
              ELSE LET e == acc.out[CHOOSE j \in hit : TRUE]
                   IN MergeRoleFacts(Tail(items), ord,
                          [acc EXCEPT !.heap[e] = Merge(acc.heap[e], acc.heap[r], ord)])

RECURSIVE RolesLastFirst(_, _, _)
\* the keys of bucket, the last inserted first
RolesLastFirst(h, refs, acc) ==
    IF refs = <<>> THEN acc
    ELSE LET role == h[Head(refs)].role
         IN IF role \in Range(acc) THEN RolesLastFirst(h, Tail(refs), acc)
            ELSE RolesLastFirst(h, Tail(refs), <<role>> \o acc)

RECURSIVE RolesInOrder(_, _, _)
\* the keys of bucket, in insertion order
RolesInOrder(h, refs, acc) ==
    IF refs = <<>> THEN acc
    ELSE LET role == h[Head(refs)].role
         IN IF role \in Range(acc) THEN RolesInOrder(h, Tail(refs), acc)
            ELSE RolesInOrder(h, Tail(refs), Append(acc, role))

RECURSIVE BuildRoles(_, _, _, _)
\* the loop over bucket.items(); acc = [heap, merged]
BuildRoles(roles, refs, ord, acc) ==
    IF roles = <<>> THEN acc
    ELSE LET Mine(r) == acc.heap[r].role = Head(roles)
             m == MergeRoleFacts(SelectSeq(refs, Mine), ord, [heap |-> acc.heap, out |-> <<>>])
         IN BuildRoles(Tail(roles), refs, ord,
                       [heap |-> m.heap, merged |-> acc.merged \o m.out])

\* FactGraph.build(facts): [heap, merged]
Build(h, refs, ord) ==
    IF refs = <<>> THEN [heap |-> h, merged |-> <<>>]
    ELSE BuildRoles(RolesInOrder(h, refs, <<>>), refs, ord, [heap |-> h, merged |-> <<>>])

\* ------------------------------------------------------------------------
\* sorted(): a stable sort of a list of references by precomputed keys
\* ------------------------------------------------------------------------
RECURSIVE LexLess(_, _)
\* the order of Python tuples of numbers
LexLess(a, b) ==
    IF a = <<>> THEN b # <<>>
    ELSE IF b = <<>> THEN FALSE
    ELSE IF Head(a) # Head(b) THEN Head(a) < Head(b)
    ELSE LexLess(Tail(a), Tail(b))

RECURSIVE SortedBy(_, _)
\* refs sorted by key[ref], equal keys staying in their order
SortedBy(refs, key) ==
    IF refs = <<>> THEN <<>>
    ELSE LET ks == {key[refs[i]] : i \in 1..Len(refs)}
             least == CHOOSE k \in ks : \A k2 \in ks : ~LexLess(k2, k)
             IsLeast(r) == key[r] = least
             NotLeast(r) == key[r] # least
         IN SelectSeq(refs, IsLeast) \o SortedBy(SelectSeq(refs, NotLeast), key)

\* a slice that does not cut
TakeAll(lst, n) == lst

\* lst[:n]
Take(lst, n) == SubSeq(lst, 1, Min({n, Len(lst)}))

\* lst[n:]
Drop(lst, n) == SubSeq(lst, Min({n, Len(lst)}) + 1, Len(lst))

\* ------------------------------------------------------------------------
\* FactFilter
\* ------------------------------------------------------------------------
MAX_FACTS == 100

CRIME_TOKEN_TYPES ==
    {"amount", "fraud_flag", "invest_flag", "scheme_flag", "economic_flag",
     "admin_flag", "crypto_flag", "crypto", "channel", "account", "person",
     "date", "action", "role_label", "article_ref"}

\* fact.text or fact.span_text or ""
TextOf(f) == IF f.text.lex # {} THEN f.text ELSE f.span_text

\* _is_pure_processual
IsPureProcessual(f) ==
    IF Has(TextOf(f), ProcessualLex)
      THEN ~(\E i \in 1..Len(f.tokens) : f.tokens[i].type \in CRIME_TOKEN_TYPES)
      ELSE FALSE

\* role_scores.get(role, 10)
RoleScore(role) ==
    CASE role = "fraud_action" -> 100
      [] role = "fraud_event" -> 95
      [] role = "suspect_action" -> 90
      [] role = "money_transfer" -> 85
      [] role \in {"victim_loss", "scheme_marker"} -> 80
      [] role \in {"investment_event", "crypto_operation"} -> 75
      [] role \in {"economic_action", "digital_transfer"} -> 70
      [] role = "admin_action" -> 60
      [] role = "investment_context" -> 65
      [] OTHER -> 10

\* token_scores.get(t_type, 1)
TokenScore(t) ==
    CASE t = "amount" -> 15
      [] t = "fraud_flag" -> 20
      [] t = "invest_flag" -> 15
      [] t = "crypto" -> 18
      [] t = "crypto_flag" -> 16
      [] t = "scheme_flag" -> 15
      [] t = "economic_flag" -> 12
      [] t \in {"channel", "account"} -> 10
      [] t \in {"admin_flag", "action"} -> 8
      [] t \in {"date", "role_label"} -> 5
      [] t = "person" -> 3
      [] OTHER -> 1

RECURSIVE SumTokenScores(_)
SumTokenScores(types) ==
    IF types = {} THEN 0
    ELSE LET t == CHOOSE x \in types : TRUE IN TokenScore(t) + SumTokenScores(types \ {t})

\* fact.confidence or 0.0
ConfOr0(f) == IF f.confidence < 0 THEN 0 ELSE f.confidence

\* (fact.role or "")
RoleOrEmpty(f) == IF f.role = None THEN "" ELSE f.role

\* _score_fact
ScoreFact(f) ==
    RoleScore(RoleOrEmpty(f)) + SumTokenScores(TypesOf(f.tokens))
    + (IF ConfOr0(f) > 500 THEN 10 ELSE 0)

\* sorted(non_proc, key=self._score_fact, reverse=True)
SortedByScore(h, refs) ==
    SortedBy(refs, [r \in Range(refs) |-> <<0 - ScoreFact(h[r])>>])

\* the list non_proc
NonProc(h, refs) ==
    LET Keep(r) == ~IsPureProcessual(h[r]) IN SelectSeq(refs, Keep)

\* a fallback that returns the (empty) list of non-procedural facts
FallbackToNonProc(h, refs) == NonProc(h, refs)

\* what filter_for_qualifier returns when every fact is procedural
AllProcessualFallback(h, refs) == Take(refs, MAX_FACTS)

\* FactFilter.filter_for_qualifier(facts)
FilterForQualifier(h, refs) ==
    IF refs = <<>> THEN <<>>
    ELSE IF NonProc(h, refs) = <<>> THEN AllProcessualFallback(h, refs)
    ELSE Take(SortedByScore(h, NonProc(h, refs)), MAX_FACTS)

\* ------------------------------------------------------------------------
\* RAGRouter
\* ------------------------------------------------------------------------
MAX_TOTAL == 240
MAX_PRIMARY == 130
MAX_SECONDARY == 80
MAX_RESERVE == 30
CONF_STRONG == 300

ALLOWED ==
    {"suspect_action", "fraud_action", "fraud_event", "investment_event",
     "investment_context", "scheme_marker", "entity_reference", "crypto_operation",
     "digital_transfer", "economic_action", "victim_loss", "money_transfer",
     "admin_action"}

BLOCKED == {"generic_fact", "role_statement", "victim_statement", "address_only"}

\* the keys of NORMALIZE
NormalizeKeys ==
    {"fraud_flag", "invest_flag", "role_suspect", "role_organizer", "role_victim",
     "role_witness", "entity", "project", "platform", "organization", "crypto",
     "crypto_flag", "account", "channel", "scheme", "scheme_flag", "economic_flag",
     "money"}

\* NORMALIZE[role], role being a key
NORMALIZE(role) ==
    CASE role = "fraud_flag" -> "fraud_event"
      [] role = "invest_flag" -> "investment_event"
      [] role \in {"role_suspect", "role_organizer"} -> "suspect_action"
      [] role = "role_victim" -> "victim_loss"
      [] role = "role_witness" -> "role_statement"
      [] role \in {"entity", "project", "platform", "organization"} -> "entity_reference"
      [] role \in {"crypto", "crypto_flag"} -> "crypto_operation"
      [] role \in {"account", "channel"} -> "digital_transfer"
      [] role \in {"scheme", "scheme_flag"} -> "scheme_marker"
      [] role = "economic_flag" -> "economic_action"
      [] role = "money" -> "money_transfer"

\* ROLE_PRIORITY.get(role, 99)
RolePriority(role) ==
    CASE role = "suspect_action" -> 1
      [] role = "fraud_action" -> 2
      [] role = "fraud_event" -> 3
      [] role = "scheme_marker" -> 4
      [] role = "investment_event" -> 5
      [] role = "investment_context" -> 6
      [] role \in {"money_transfer", "crypto_operation"} -> 7
      [] role \in {"economic_action", "digital_transfer"} -> 8
      [] role = "victim_loss" -> 9
      [] role = "admin_action" -> 10
      [] role = "entity_reference" -> 11
      [] OTHER -> 99

\* BOOST_TOKENS.get(t.type, 0)
BoostOf(t) ==
    CASE t = "amount" -> 18
      [] t = "fraud_flag" -> 14
      [] t \in {"invest_flag", "scheme_flag", "crypto_flag", "crypto"} -> 12
      [] t \in {"channel", "account", "economic_flag", "organization"} -> 8
      [] t = "admin_flag" -> 6
      [] t \in {"entity", "project", "platform"} -> 10
      [] t = "article_ref" -> 5
      [] t = "date" -> 3
      [] OTHER -> 0

RECURSIVE TokenBoost(_)
\* _token_boost, over the token list
TokenBoost(tokens) ==
    IF tokens = <<>> THEN 0 ELSE BoostOf(Head(tokens).type) + TokenBoost(Tail(tokens))

\* the token types of the safety net (lines 167-168)
SafetyNetTypes ==
    {"amount", "project", "platform", "crypto", "crypto_flag", "channel", "account",
     "scheme_flag", "fraud_flag", "invest_flag"}

\* step 1: roles are normalised in place
NormalizeRoles(h, refs) ==
    LET listed == Range(refs)
    IN [i \in 1..Len(h) |->
          IF i \in listed /\ h[i].role \in NormalizeKeys
            THEN [h[i] EXCEPT !.role = NORMALIZE(h[i].role)]
            ELSE h[i]]

\* step 2: does the loop of lines 156-175 append the fact to filtered
Kept(f, target) ==
    LET role == RoleOrEmpty(f)
    IN IF role \in BLOCKED THEN FALSE
       ELSE IF role \notin ALLOWED
              THEN IF TypesOf(f.tokens) \cap SafetyNetTypes # {} THEN TRUE
                   ELSE target \in {"190", "217"}
       ELSE TRUE

\* a key that leaves the strong facts in the order of the input
UnsortedPrimary(f) == <<>>

\* primary_score; cp = -conf * 10 is kept in thousandths
PrimaryScore(f) == <<RolePriority(f.role), 0 - TokenBoost(f.tokens), 0 - ConfOr0(f) * 10>>

\* secondary_score
SecondaryScore(f) == <<0 - TokenBoost(f.tokens)>>

\* step 6: the facts the reserve loop runs over
ReserveCandidates(weak, sec) == Drop(weak, Len(sec))

\* RAGRouter.route_for_qualifier(facts, target_article): the heap after the
\* call, the local lists at the return, and the returned list
Route(h, refs, target) ==
    IF refs = <<>>
      THEN [heap |-> h, primary |-> <<>>, secondary |-> <<>>, reserve |-> <<>>,
            result |-> <<>>]
    ELSE
    LET h2 == NormalizeRoles(h, refs)
        IsKept(r) == Kept(h2[r], target)
        kept == SelectSeq(refs, IsKept)
        IsStrong(r) == ConfOr0(h2[r]) >= CONF_STRONG
        IsWeak(r) == ~IsStrong(r)
        strong == SelectSeq(kept, IsStrong)
        weak == SelectSeq(kept, IsWeak)
        prim == Take(SortedBy(strong, [r \in Range(strong) |-> PrimaryScore(h2[r])]),
                     MAX_PRIMARY)
        sec == Take(SortedBy(weak, [r \in Range(weak) |-> SecondaryScore(h2[r])]),
                    MAX_SECONDARY)
        res == Take(ReserveCandidates(weak, sec), MAX_RESERVE)
    IN IF kept = <<>>
         THEN [heap |-> h2, primary |-> <<>>, secondary |-> <<>>, reserve |-> <<>>,
               result |-> <<>>]
         ELSE [heap |-> h2, primary |-> prim, secondary |-> sec, reserve |-> res,
               result |-> Take(prim \o sec \o res, MAX_TOTAL)]

\* ========================================================================
\* The pipeline actions (api/debug/diagnostics.py) and their specifications
\* ========================================================================
\* the verifier is not running
VerifierIdle ==
    /\ vpc = "idle"
    /\ payload = NoPayload
    /\ facts = <<>>
    /\ sentence_map = <<>>
    /\ used_tokens = <<>>
    /\ all_token_ids = <<>>
    /\ facts_res = NoRes
    /\ text_res = NoRes
    /\ token_res = NoRes
    /\ sentence_res = NoRes
    /\ overall_ok = FALSE
    /\ verdict = None

\* tokenized = tokenizer.tokenize(docs)
Tokenize ==
    /\ heap_at_call' = heap
    /\ UNCHANGED <<rebuilt, run, first_out, valid_articles, classification>>
    /\ pc = "start"
    /\ LET r == TokenizeDocs(docs, NoFacts(uuid))
       IN IF r.raised
            THEN \* the exception leaves tokenize: the caller gets no list
                 /\ heap' = heap
                 /\ tokenized' = <<>>
                 /\ uuid' = r.fresh
                 /\ pc' = "raised"
            ELSE /\ heap' = heap \o r.facts
                 /\ tokenized' = NewRefs(heap, Len(r.facts))
                 /\ uuid' = r.fresh
                 /\ pc' = "tokenized"
    /\ UNCHANGED <<docs, target_article, merged, filtered, routed, primary, secondary,
                   reserve, probe, conf_out>>
    /\ UNCHANGED vvars

\* the iteration orders a set of (file_id, page) pairs can have
SrcOrders(h) ==
    LET keys == UNION {SrcKeys(h[i].source_refs) : i \in 1..Len(h)}
    IN {ord \in SeqsUpTo(keys, Cardinality(keys)) :
          Len(ord) = Cardinality(keys) /\ Range(ord) = keys}

\* merged = FactGraph().build(tokenized)
BuildGraph ==
    /\ heap_at_call' = heap
    /\ UNCHANGED <<rebuilt, run, first_out, valid_articles, classification>>
    /\ pc = "tokenized"
    /\ \E ord \in SrcOrders(heap) :
          LET r == Build(heap, tokenized, ord)
          IN /\ heap' = r.heap
             /\ merged' = r.merged
    /\ pc' = "merged"
    /\ UNCHANGED <<docs, target_article, tokenized, filtered, routed, primary, secondary,
                   reserve, uuid, probe, conf_out>>
    /\ UNCHANGED vvars

\* filtered = FactFilter().filter_for_qualifier(merged)
FilterFacts ==
    /\ heap_at_call' = heap
    /\ UNCHANGED <<rebuilt, run, first_out, valid_articles, classification>>
    /\ pc = "merged"
    /\ filtered' = FilterForQualifier(heap, merged)
    /\ pc' = "filtered"
    /\ UNCHANGED <<docs, target_article, heap, tokenized, merged, routed, primary,
                   secondary, reserve, uuid, probe, conf_out>>
    /\ UNCHANGED vvars

\* routed = RAGRouter().route_for_qualifier(filtered, target_article)
RouteFacts ==
    /\ heap_at_call' = heap
    /\ UNCHANGED <<rebuilt, run, first_out, valid_articles, classification>>
    /\ pc = "filtered"
    /\ LET r == Route(heap, filtered, target_article)
       IN /\ heap' = r.heap
          /\ primary' = r.primary
          /\ secondary' = r.secondary
          /\ reserve' = r.reserve
          /\ routed' = r.result
    /\ pc' = "routed"
    /\ UNCHANGED <<docs, target_article, tokenized, merged, filtered, uuid, probe,
                   conf_out>>
    /\ UNCHANGED vvars

\* a direct call of _confidence
CallConfidence ==
    /\ UNCHANGED <<heap_at_call, rebuilt, run, first_out, valid_articles, classification>>
    /\ pc = "probe"
    /\ conf_out' = Confidence(probe.types, probe.role, probe.first_person,
                              probe.suspect_verb)
    /\ pc' = "probed"
    /\ UNCHANGED <<docs, target_article, heap, tokenized, merged, filtered, routed,
                   primary, secondary, reserve, uuid, probe>>
    /\ UNCHANGED vvars

TargetArticles == {None, "190"}

\* ------------------------------------------------------------------------
\* Specification SpecConf: _confidence on arbitrary arguments, and the
\* tokenizer on one sentence
\* ------------------------------------------------------------------------
MaxTypes == 3
MaxLex == 2

\* the keys of weights, and one type outside them
WeightedTypes ==
    {"entity", "project", "platform", "organization", "amount", "economic_flag",
     "fraud_flag", "invest_flag", "scheme_flag", "crypto", "crypto_flag", "channel",
     "account", "date", "person", "address", "role_label"}

\* the roles _detect_role returns
DetectedRoles ==
    {"suspect_action", "fraud_action", "investment_event", "investment_context",
     "scheme_marker", "entity_reference", "admin_action", "crypto_operation",
     "digital_transfer", "economic_action", "victim_loss", "victim_statement",
     "role_statement", "generic_fact"}

Probes ==
    [called : {TRUE},
     types : SubsetsUpTo(WeightedTypes, MaxTypes),
     role : DetectedRoles, first_person : BOOLEAN, suspect_verb : BOOLEAN]

SingleSentences == {Sent(L) : L \in SubsetsUpTo(Lexemes, MaxLex)}

InitConf ==
    /\ VerifierIdle
    /\ target_article = None
    /\ heap = <<>>
    /\ tokenized = <<>>
    /\ merged = <<>>
    /\ filtered = <<>>
    /\ routed = <<>>
    /\ primary = <<>>
    /\ secondary = <<>>
    /\ reserve = <<>>
    /\ uuid = 1
    /\ conf_out = 0 - 1
    /\ heap_at_call = <<>>
    /\ rebuilt = <<>>
    /\ run = 1
    /\ first_out = <<>>
    /\ valid_articles = <<>>
    /\ classification = NoClassification
    /\ \/ /\ pc = "probe"
          /\ probe \in Probes
          /\ docs = <<>>
       \/ /\ pc = "start"
          /\ probe = NoProbe
          /\ docs \in {<<Doc("A", 1, <<s>>)>> : s \in SingleSentences}

NextConf == CallConfidence \/ Tokenize

SpecConf == InitConf /\ [][NextConf]_vars

\* ------------------------------------------------------------------------
\* Facts handed directly to the Filter and to the Router: lists made of
\* blocks of facts of one kind.  A fact of a kind is the fact the tokenizer
\* builds from the kind's sentence; a kind may carry a role set by another
\* producer of facts.
\* ------------------------------------------------------------------------
MaxSmallBlock == 1

Kind(L, role) == [lex |-> L, role |-> role]

\* the fact the tokenizer builds from the sentence of a kind, with the
\* kind's role
KindFact(kind) ==
    LET doc == Doc("A", 1, <<Sent(kind.lex)>>)
        f == NewFact(doc, doc.text, 1, 0)
        role == IF kind.role = "auto" THEN f.role ELSE kind.role
    IN [f EXCEPT !.role = role, !.event_type = role]

\* the same fact at position pos of a list: it is sentence pos - 1 of the
\* document and has its own uuids
Placed(f, pos) ==
    [f EXCEPT !.sentence_index = pos - 1,
              !.fact_id = @ + pos * 4,
              !.tokens = [i \in 1..Len(f.tokens) |->
                            [f.tokens[i] EXCEPT !.token_id = @ + pos * 4]]]

Block(kind, n, first) ==
    LET f == KindFact(kind) IN [i \in 1..n |-> Placed(f, first + i - 1)]

TwoBlocks(k1, n1, k2, n2) == Block(k1, n1, 1) \o Block(k2, n2, n1 + 1)

Refs(h) == [i \in 1..Len(h) |-> i]

PipeCleared ==
    /\ docs = <<>>
    /\ tokenized = <<>>
    /\ routed = <<>>
    /\ primary = <<>>
    /\ secondary = <<>>
    /\ reserve = <<>>
    /\ uuid = 1
    /\ probe = NoProbe
    /\ conf_out = 0 - 1
    /\ heap_at_call = <<>>
    /\ rebuilt = <<>>
    /\ run = 1
    /\ first_out = <<>>
    /\ valid_articles = <<>>
    /\ classification = NoClassification

\* ------------------------------------------------------------------------
\* Specification SpecRouter: route_for_qualifier on lists of up to 262 facts
\* ------------------------------------------------------------------------
RouterKinds ==
    {Kind({"amount", "poluchil"}, "auto"),   \* suspect_action, confidence 1.0
     Kind({"amount"}, "money"),              \* normalised to money_transfer, 0.40
     Kind({"kaspi"}, "auto"),                \* digital_transfer, 0.25, boost 8
     Kind({"admin"}, "auto"),                \* admin_action, 0.05, boost 6
     Kind({"amount"}, "auto"),               \* generic_fact with an amount token
     Kind({"date"}, None)}                   \* no role, no safety-net token

RouterBlockSizes ==
    (0..MaxSmallBlock)
    \cup {MAX_SECONDARY + 1, MAX_SECONDARY + MAX_RESERVE + 1, MAX_PRIMARY + 1}

RouterInputs ==
    {TwoBlocks(k1, n1, k2, n2) : k1 \in RouterKinds, n1 \in RouterBlockSizes,
                                 k2 \in RouterKinds, n2 \in RouterBlockSizes}

InitRouter ==
    /\ VerifierIdle
    /\ PipeCleared
    /\ pc = "filtered"
    /\ target_article \in TargetArticles
    /\ heap \in RouterInputs
    /\ merged = <<>>
    /\ filtered = Refs(heap)

NextRouter == RouteFacts

SpecRouter == InitRouter /\ [][NextRouter]_vars

\* ------------------------------------------------------------------------
\* Specification SpecFilter: filter_for_qualifier on lists of up to 202 facts
\* ------------------------------------------------------------------------
FilterKinds ==
    {Kind({"rospis", "phone"}, "auto"),          \* procedural, no crime token
     Kind({"rospis", "phone", "plain"}, "auto"), \* procedural, no crime token
     Kind({"rospis", "date"}, "auto"),           \* procedural keyword and a date
     Kind({"rospis", "poluchil"}, "auto"),       \* procedural keyword, economic_flag
     Kind({"amount", "poluchil"}, "auto"),       \* suspect_action
     Kind({"kaspi"}, "auto"),                    \* digital_transfer
     Kind({"fio"}, "auto")}                      \* generic_fact

FilterBlockSizes == (0..MaxSmallBlock) \cup {MAX_FACTS + 1}

FilterInputs ==
    {TwoBlocks(k1, n1, k2, n2) : k1 \in FilterKinds, n1 \in FilterBlockSizes,
                                 k2 \in FilterKinds, n2 \in FilterBlockSizes}

InitFilter ==
    /\ VerifierIdle
    /\ PipeCleared
    /\ pc = "merged"
    /\ target_article = None
    /\ heap \in FilterInputs
    /\ merged = Refs(heap)
    /\ filtered = <<>>

NextFilter == FilterFacts

SpecFilter == InitFilter /\ [][NextFilter]_vars

\* ------------------------------------------------------------------------
\* Specification SpecPipe: tokenize -> build -> filter -> route on two
\* documents
\* ------------------------------------------------------------------------
MaxDocSentences == 1

PipeSentences ==
    {Sent({"amount", "poluchil"}),                                \* suspect_action
     [lex |-> {"amount", "poluchil"}, spacing |-> "double"],      \* the same, spaced out
     Sent({"amount"}),                                            \* generic_fact
     Sent({"kaspi"}),                                             \* digital_transfer
     Sent({"obman", "mne"}),                                      \* first-person fraud
     Sent({"rospis", "phone"}),                                   \* procedural
     Sent({"rospis", "date"}),                                    \* procedural with a date
     Sent({"plain"}),                                             \* no token
     Sent({"vopros", "fio"}),                                     \* investigator's question
     Sent({"mne", "fio"})}                                        \* subjective remark

PipeTexts == SeqsUpTo(PipeSentences, MaxDocSentences)

InitPipe ==
    /\ VerifierIdle
    /\ pc = "start"
    /\ docs \in {<<Doc("A", 1, t1), Doc(b, 1, t2)>> :
                    t1 \in PipeTexts, b \in {"A", "B"}, t2 \in PipeTexts}
    /\ target_article \in TargetArticles
    /\ heap = <<>>
    /\ tokenized = <<>>
    /\ merged = <<>>
    /\ filtered = <<>>
    /\ routed = <<>>
    /\ primary = <<>>
    /\ secondary = <<>>
    /\ reserve = <<>>
    /\ uuid = 1
    /\ probe = NoProbe
    /\ conf_out = 0 - 1
    /\ heap_at_call = <<>>
    /\ rebuilt = <<>>
    /\ run = 1
    /\ first_out = <<>>
    /\ valid_articles = <<>>
    /\ classification = NoClassification

NextPipe == Tokenize \/ BuildGraph \/ FilterFacts \/ RouteFacts

SpecPipe == InitPipe /\ [][NextPipe]_vars

\* ========================================================================
\* Claims about the pipeline
\* ========================================================================
TypesOfFact(r) == TypesOf(heap[r].tokens)

\* C5: the Router never drops a fact whose role is blocked when the fact
\* carries a safety-net token (the list is short, so no cap applies)
C5_Claim ==
    (pc = "routed" /\ Len(filtered) <= MAX_RESERVE)
    => \A i \in 1..Len(filtered) :
          (heap[filtered[i]].role \in BLOCKED
           /\ TypesOfFact(filtered[i]) \cap SafetyNetTypes # {})
          => filtered[i] \in Range(routed)

\* C6: primary, secondary and reserve are pairwise disjoint, and no fact
\* appears twice in the list the Router returns
C6_Claim ==
    pc = "routed"
    => /\ Range(primary) \cap Range(secondary) = {}
       /\ Range(primary) \cap Range(reserve) = {}
       /\ Range(secondary) \cap Range(reserve) = {}
       /\ Cardinality(Range(routed)) = Len(routed)

\* C7: the Router returns at most MAX_PRIMARY primary, MAX_SECONDARY
\* secondary and MAX_RESERVE reserve facts, and at most MAX_TOTAL facts
C7_Caps ==
    pc = "routed"
    => /\ Len(primary) <= 130
       /\ Len(secondary) <= 80
       /\ Len(reserve) <= 30
       /\ Len(routed) <= 240

\* more than MAX_TOTAL facts went in and every tier came out full
C7_Witness ==
    /\ pc = "routed"
    /\ Len(filtered) > MAX_TOTAL
    /\ Len(primary) = 130
    /\ Len(secondary) = 80
    /\ Len(reserve) = 30
    /\ Len(routed) = 240

HasToken(refs) == \A i \in 1..Len(refs) : Len(heap[refs[i]].tokens) >= 1

\* C8: every fact has at least one token after tokenize, after build,
\* after filter and after route
C8_Tokens ==
    /\ HasToken(tokenized)
    /\ HasToken(merged)
    /\ HasToken(filtered)
    /\ HasToken(routed)

\* the four stages ran, a token-less sentence went in, a fact came out
C8_Witness ==
    /\ pc = "routed"
    /\ routed # <<>>
    /\ \E d \in 1..Len(docs) : \E i \in 1..Len(docs[d].text) :
          ExtractPairs(docs[d].text[i]) = <<>>

\* C9: _confidence returns a value in [0, 1] for every combination of
\* token types, role and first-person marker, and every fact the tokenizer
\* emits has 0 < confidence <= 1
C9_Range ==
    /\ pc = "probed" => (conf_out >= 0 /\ conf_out <= 1000)
    /\ \A i \in 1..Len(tokenized) :
          heap[tokenized[i]].confidence > 0 /\ heap[tokenized[i]].confidence <= 1000

\* the weights add up to more than 1.0 and the ceiling applies
C9_Witness ==
    /\ pc = "probed"
    /\ SumWeights(probe.types) > 1000
    /\ probe.role # "suspect_action"
    /\ conf_out = 1000

AllProcessual(refs) == \A i \in 1..Len(refs) : IsPureProcessual(heap[refs[i]])

\* C10: the Filter returns a non-empty list for a non-empty input; when
\* every fact is procedural it returns the first MAX_FACTS input facts in
\* input order
C10_NonEmpty ==
    (pc = "filtered" /\ merged # <<>>)
    => /\ filtered # <<>>
       /\ AllProcessual(merged)
          => /\ Len(filtered) = Min({Len(merged), 100})
             /\ \A i \in 1..Len(filtered) : filtered[i] = merged[i]

\* more than MAX_FACTS facts, all of them procedural, went through the
\* Filter
C10_Witness ==
    /\ pc = "filtered"
    /\ Len(merged) > MAX_FACTS
    /\ AllProcessual(merged)
    /\ Len(filtered) = 100

\* ------------------------------------------------------------------------
\* Specification SpecGraph: FactGraph.build, called twice, on lists of
\* facts that differ in role, tokens, spacing, sentence index and source
\* ------------------------------------------------------------------------
MaxGraphFacts == 3

\* merged = graph.build(merged), a second call on the list the first returned
BuildAgain ==
    /\ pc = "merged"
    /\ \E ord \in SrcOrders(heap) :
          LET r == Build(heap, merged, ord)
          IN /\ heap' = r.heap
             /\ rebuilt' = r.merged
    /\ heap_at_call' = heap
    /\ pc' = "rebuilt"
    /\ UNCHANGED <<docs, target_article, tokenized, merged, filtered, routed, primary,
                   secondary, reserve, uuid, probe, conf_out, run, first_out,
                   valid_articles, classification>>
    /\ UNCHANGED vvars

\* what a fact handed to the Graph is made of
\* file "A" holds the sentence with single spaces, file "B" with double ones
GraphShapes ==
    [lex : {{"amount", "poluchil"}}, role : {"auto", "money"}, file : {"A", "B"},
     idx : {0, 1}]
    \cup [lex : {{"obman", "piramida"}}, role : {"auto"}, file : {"A", "B"},
          idx : {0, 1}]

SpacingIn(file) == IF file = "A" THEN "single" ELSE "double"

\* the fact of a shape, at position pos of the list
GraphFact(g, pos) ==
    LET f == Placed(KindFact(Kind(g.lex, g.role)), pos)
        src == SourceRef(g.file, 1)
    IN [f EXCEPT !.sentence_index = g.idx,
                 !.text = [lex |-> g.lex, spacing |-> SpacingIn(g.file)],
                 !.span_text = [lex |-> g.lex, spacing |-> SpacingIn(g.file)],
                 !.source_refs = <<src>>,
                 !.tokens = [i \in 1..Len(f.tokens) |-> [f.tokens[i] EXCEPT !.source = src]]]

\* the list of facts of a list of shapes
GraphList(gs) == [i \in 1..Len(gs) |-> GraphFact(gs[i], i)]

InitGraph ==
    /\ VerifierIdle
    /\ pc = "tokenized"
    /\ docs = <<>>
    /\ target_article = None
    /\ \E gs \in SeqsUpTo(GraphShapes, MaxGraphFacts) : heap = GraphList(gs)
    /\ tokenized = Refs(heap)
    /\ merged = <<>>
    /\ filtered = <<>>
    /\ routed = <<>>
    /\ primary = <<>>
    /\ secondary = <<>>
    /\ reserve = <<>>
    /\ uuid = 1
    /\ probe = NoProbe
    /\ conf_out = 0 - 1
    /\ heap_at_call = <<>>
    /\ rebuilt = <<>>
    /\ run = 1
    /\ first_out = <<>>
    /\ valid_articles = <<>>
    /\ classification = NoClassification

NextGraph == BuildGraph \/ BuildAgain

SpecGraph == InitGraph /\ [][NextGraph]_vars

\* ========================================================================
\* Claims about the Graph
\* ========================================================================
SameSources(h1, h2, r) == SrcKeys(h1[r].source_refs) = SrcKeys(h2[r].source_refs)

\* C11: FactGraph.build is idempotent: a second build returns the same
\* facts in the same order, with the same tokens, the same sources (as sets
\* of (file_id, page)) and the same article hints; it merges nothing
C11_Idempotent ==
    pc = "rebuilt"
    => /\ rebuilt = merged
       /\ \A i \in 1..Len(merged) :
             LET r == merged[i]
             IN /\ heap[r].tokens = heap_at_call[r].tokens
                /\ SameSources(heap, heap_at_call, r)
                /\ heap[r].article_hints = heap_at_call[r].article_hints
                /\ heap[r].role = heap_at_call[r].role

\* the first build merged facts and returned facts of two roles; the second
\* has run
C11_Witness ==
    /\ pc = "rebuilt"
    /\ Len(merged) < Len(tokenized)
    /\ \E i, j \in 1..Len(merged) : heap[merged[i]].role # heap[merged[j]].role

\* two facts of the list handed to build have the same role, the same
\* (type, value) pairs, the same normalized span and the same sentence index
SameObservation(h, r1, r2) ==
    /\ h[r1].role = h[r2].role
    /\ TokensKey(h[r1].tokens) = TokensKey(h[r2].tokens)
    /\ NormalizeSpan(h[r1].span_text) = NormalizeSpan(h[r2].span_text)
    /\ h[r1].sentence_index = h[r2].sentence_index

\* the input facts that were merged into the returned fact e
MergedInto(e) ==
    {tokenized[j] : j \in {k \in 1..Len(tokenized) :
                              SameObservation(heap_at_call, e, tokenized[k])}}

\* C12: the surviving fact of a merge has every distinct (file_id, page)
\* of the merged inputs exactly once and nothing else
C12_SourceUnion ==
    pc = "merged"
    => \A i \in 1..Len(merged) :
          LET e == merged[i]
              all == UNION {SrcKeys(heap_at_call[r].source_refs) : r \in MergedInto(e)}
          IN Cardinality(MergedInto(e)) > 1
             => /\ SrcKeys(heap[e].source_refs) = all
                /\ Len(heap[e].source_refs) = Cardinality(all)

\* the same sentence at the same index from two files became one fact with
\* two source references
C12_Witness ==
    /\ pc = "merged"
    /\ Len(tokenized) = 2
    /\ Len(merged) = 1
    /\ Len(heap[merged[1]].source_refs) = 2
    /\ heap_at_call[1].source_refs # heap_at_call[2].source_refs

DocSentences == UNION {Range(docs[d].text) : d \in 1..Len(docs)}

\* the token types _extract_tokens finds in a sentence
SentenceTypes(sent) == {p.type : p \in Range(ExtractPairs(sent))}

\* a victim role label among the tokens, or the lexical marker "poterpev"
VictimMarked(sent) ==
    \/ \E p \in Range(ExtractPairs(sent)) : p.type = "role_label" /\ p.value = "victim"
    \/ Has(sent, PoterpevLex)

\* the decision table of the role derivation as it is documented: first
\* match wins, in the documented order
DocumentedRole(types, suspectVerb, victimMarked) ==
    LET signal == "amount" \in types \/ "economic_flag" \in types \/ "invest_flag" \in types
    IN IF "amount" \in types /\ suspectVerb THEN "suspect_action"
       ELSE IF "fraud_flag" \in types /\ "amount" \in types THEN "fraud_action"
       ELSE IF "fraud_flag" \in types THEN "fraud_event"
       ELSE IF "invest_flag" \in types /\ ("amount" \in types \/ "economic_flag" \in types)
            THEN "investment_event"
       ELSE IF "invest_flag" \in types THEN "investment_context"
       ELSE IF "scheme_flag" \in types THEN "scheme_marker"
       ELSE IF types \cap {"entity", "project", "platform", "organization"} # {}
            THEN "entity_reference"
       ELSE IF "admin_flag" \in types THEN "admin_action"
       ELSE IF "crypto_flag" \in types \/ "crypto" \in types THEN "crypto_operation"
       ELSE IF "channel" \in types \/ "account" \in types THEN "digital_transfer"
       ELSE IF "economic_flag" \in types THEN "economic_action"
       ELSE IF victimMarked THEN (IF signal THEN "victim_loss" ELSE "victim_statement")
       ELSE IF "role_label" \in types THEN "role_statement"
       ELSE "generic_fact"

\* C14: the role _detect_role gives a fact is the role of the documented
\* first-match-wins decision table (suspect_action, fraud_action,
\* fraud_event for a fraud keyword without amount, investment_event, ...,
\* generic_fact) for the fact's token types and the markers of its sentence
C14_Claim ==
    \A i \in 1..Len(tokenized) :
       LET f == heap[tokenized[i]]
       IN f.role = DocumentedRole(TypesOf(f.tokens), Has(f.text, SuspectVerbLex),
                                  VictimMarked(f.text))

\* C15: every fact tokenize emits with role suspect_action has confidence
\* exactly 1.0, whatever the weighted sum of its token types is
C15_SuspectOne ==
    \A i \in 1..Len(tokenized) :
       heap[tokenized[i]].role = "suspect_action" => heap[tokenized[i]].confidence = 1000

\* tokenize emitted a suspect_action fact whose weights do not add up to 1.0
C15_Witness ==
    /\ pc = "tokenized"
    /\ \E i \in 1..Len(tokenized) :
          /\ heap[tokenized[i]].role = "suspect_action"
          /\ SumWeights(TypesOf(heap[tokenized[i]].tokens)) < 1000

\* the sentence ends in "?" or carries the question prefix
Interrogative(sent) == Has(sent, QuestionLex)

\* an amount, a date, an entity, or a keyword of one of the families
\* fraud, investment, economic action, admin action, scheme, crypto
EvidentiaryTypes ==
    {"amount", "date", "entity", "project", "platform", "organization", "fraud_flag",
     "invest_flag", "economic_flag", "admin_flag", "scheme_flag", "crypto_flag"}

Evidentiary(sent) == SentenceTypes(sent) \cap EvidentiaryTypes # {}

\* the first continue of the loop of tokenize is taken for the sentence
DiscardedAsQuestion(sent) == sent.lex # {} /\ IsPureQuestion(sent)

\* C16: the question filter discards a sentence only if it is
\* interrogative and has no evidentiary content: an interrogative sentence
\* with an amount, a date, an entity or an evidentiary keyword is not
\* discarded by the filter, and an interrogative sentence with none of
\* these yields no fact
C16_Claim ==
    pc = "tokenized" =>
       \A s \in DocSentences :
          /\ DiscardedAsQuestion(s) => Interrogative(s)
          /\ (Interrogative(s) /\ Evidentiary(s)) => ~DiscardedAsQuestion(s)
          /\ (Interrogative(s) /\ SentenceTypes(s) \cap EvidentiaryTypes = {})
                => \A i \in 1..Len(tokenized) : heap[tokenized[i]].text # s

\* the token types that give a first-person sentence a verifiable referent
ReferentTypes ==
    {"amount", "entity", "project", "platform", "organization", "scheme_flag",
     "crypto", "crypto_flag", "channel", "account"}

\* the lexemes that are a first-person pronoun as a word
FirstPersonWords == {"mne"}

\* a sentence in the first person that names no suspect
FirstPersonSubjective(sent) ==
    /\ Has(sent, FirstPersonWords)
    /\ ~Has(sent, SuspectWordLex)
    /\ \A p \in Range(ExtractPairs(sent)) :
          ~(p.type = "role_label" /\ p.value \in {"suspect", "organizer"})

\* C17: a first-person subjective sentence with no amount, entity, scheme,
\* crypto, channel or account token produces no fact, even when it matched
\* the fraud, investment or economic keyword family; a sentence without a
\* first-person marker is never dropped by this filter
C17_Claim ==
    pc = "tokenized" =>
       \A s \in DocSentences :
          /\ (FirstPersonSubjective(s) /\ SentenceTypes(s) \cap ReferentTypes = {})
                => \A i \in 1..Len(tokenized) : heap[tokenized[i]].text # s
          /\ ~Has(s, FirstPersonLex)
                => ~IsPureVictimSubjective(s, ExtractTokens(s, None, 1, 1))


\* ------------------------------------------------------------------------
\* Specification SpecBatch: tokenize on a batch of windows, some of them
\* malformed
\* ------------------------------------------------------------------------
MaxBatch == 3

\* the windows of a batch
BatchWindows ==
    {Doc("A", 1, <<Sent({"amount"})>>),             \* a fact
     Doc("B", 2, <<Sent({"obman", "mne"})>>),       \* a fact
     Doc("A", 1, <<>>),                             \* empty text
     NonStringDoc("A", 1),                          \* text is not a string
     Doc(None, 1, <<Sent({"amount"})>>),            \* no document id
     Doc(None, 1, <<Sent({"vopros", "fio"})>>)}     \* no document id, a question

InitBatch ==
    /\ VerifierIdle
    /\ pc = "start"
    /\ docs \in SeqsUpTo(BatchWindows, MaxBatch)
    /\ target_article = None
    /\ heap = <<>>
    /\ tokenized = <<>>
    /\ merged = <<>>
    /\ filtered = <<>>
    /\ routed = <<>>
    /\ primary = <<>>
    /\ secondary = <<>>
    /\ reserve = <<>>
    /\ uuid = 1
    /\ probe = NoProbe
    /\ conf_out = 0 - 1
    /\ heap_at_call = <<>>
    /\ rebuilt = <<>>
    /\ run = 1
    /\ first_out = <<>>
    /\ valid_articles = <<>>
    /\ classification = NoClassification

NextBatch == Tokenize

SpecBatch == InitBatch /\ [][NextBatch]_vars

\* text that is not a string, or a missing document id
Malformed(doc) == doc.text_type # "str" \/ doc.file_id = None

WellFormed(doc) == ~Malformed(doc)

\* a fact without the identifiers drawn at random
Content(f) ==
    [role |-> f.role, confidence |-> f.confidence, text |-> f.text,
     span_text |-> f.span_text, sentence_index |-> f.sentence_index,
     source_refs |-> f.source_refs, article_hints |-> f.article_hints,
     context_before |-> f.context_before, context_after |-> f.context_after,
     tokens |-> [k \in 1..Len(f.tokens) |->
                   [type |-> f.tokens[k].type, value |-> f.tokens[k].value,
                    source |-> f.tokens[k].source]]]

Contents(fs) == [k \in 1..Len(fs) |-> Content(fs[k])]

\* C18: a window with malformed input (text that is not a string, or a
\* missing document id) contributes no facts and raises nothing: tokenize
\* returns, and it returns the facts of the other windows of the batch
\* exactly as if the malformed windows were absent
C18_Claim ==
    pc \in {"tokenized", "raised"} =>
       /\ pc = "tokenized"
       /\ Contents([k \in 1..Len(tokenized) |-> heap[tokenized[k]]])
            = Contents(TokenizeDocs(SelectSeq(docs, WellFormed), NoFacts(1)).facts)


\* ------------------------------------------------------------------------
\* Specification SpecTwice: the pipeline run twice on the same documents
\* ------------------------------------------------------------------------
\* the facts a list refers to, as values
FactsOf(h, refs) == [k \in 1..Len(refs) |-> h[refs[k]]]

\* the second request with the same documents: the result of the first one
\* is kept for comparison, the locals of the handler start afresh, and
\* uuid.uuid4() goes on drawing identifiers never drawn before
Rerun ==
    /\ pc = "routed"
    /\ run = 1
    /\ first_out' = FactsOf(heap, routed)
    /\ run' = 2
    /\ pc' = "start"
    /\ tokenized' = <<>>
    /\ merged' = <<>>
    /\ filtered' = <<>>
    /\ routed' = <<>>
    /\ primary' = <<>>
    /\ secondary' = <<>>
    /\ reserve' = <<>>
    /\ UNCHANGED <<docs, target_article, heap, uuid, probe, conf_out, heap_at_call,
                   rebuilt, valid_articles, classification>>
    /\ UNCHANGED vvars

NextTwice == Tokenize \/ BuildGraph \/ FilterFacts \/ RouteFacts \/ Rerun

SpecTwice == InitPipe /\ [][NextTwice]_vars

\* C19: running Tokenizer -> Graph -> Filter -> Router twice on the same
\* input yields identical outputs: the same facts in the same order with
\* identical field values, fact_id, token_id and the order of source_refs
\* included
C19_Claim == (run = 2 /\ pc = "routed") => FactsOf(heap, routed) = first_out


\* ------------------------------------------------------------------------
\* Frame of the stages (SpecPipe)
\* ------------------------------------------------------------------------
\* the list a stage was called with, and the list it returned
StageInput ==
    CASE pc = "merged" -> tokenized
      [] pc = "filtered" -> merged
      [] pc = "routed" -> filtered
      [] OTHER -> <<>>

StageOutput ==
    CASE pc = "merged" -> merged
      [] pc = "filtered" -> filtered
      [] pc = "routed" -> routed
      [] OTHER -> <<>>

\* the fact object is as it was when the stage was called
Untouched(ref) ==
    /\ heap[ref].role = heap_at_call[ref].role
    /\ heap[ref].tokens = heap_at_call[ref].tokens
    /\ heap[ref].source_refs = heap_at_call[ref].source_refs
    /\ heap[ref].article_hints = heap_at_call[ref].article_hints

\* C20: no stage mutates its input: after build, filter_for_qualifier or
\* route_for_qualifier returns, every fact object of the input list has the
\* role, tokens, source_refs and article_hints it had before the call, and
\* the returned list holds none of the fact objects of the input list
C20_Claim ==
    /\ \A ref \in Range(StageInput) : Untouched(ref)
    /\ Range(StageOutput) \cap Range(StageInput) = {}


\* ------------------------------------------------------------------------
\* Specification SpecReport: run_full_verification on payloads whose facts
\* may lack sources or a confidence and whose sentences may lack text or
\* tokens
\* ------------------------------------------------------------------------
\* LegalFact.confidence is Optional[float] = None: a fact dict may carry
\* confidence None, no confidence key, or a number
ReportFactDicts ==
    [fact_id : {"f1"}, token_id : {NoneId, 1}, tokens : {<<>>},
     sources : {<<>>, OneSource, TwoSources},
     confidence : {700, 800, MissingConf, NoneConf}, critical : BOOLEAN]

ReportSentenceDicts == [text : {"", "s"}, tokens : IncSeqs({1, 999})]

ReportPayloads ==
    [facts : SeqsUpTo(ReportFactDicts, MaxPayloadFacts),
     established_text : {{}, {"date", "citation"}},
     final_postanovlenie : {{"citation"}},
     used_tokens : IncSeqs({1, 999}),
     has_sentences : {TRUE},
     sentences : {<<>>} \cup {<<sd>> : sd \in ReportSentenceDicts}]

InitReport ==
    /\ PipeIdle
    /\ vpc = "start"
    /\ payload \in ReportPayloads
    /\ facts = <<>>
    /\ sentence_map = <<>>
    /\ used_tokens = <<>>
    /\ all_token_ids = <<>>
    /\ facts_res = NoRes
    /\ text_res = NoRes
    /\ token_res = NoRes
    /\ sentence_res = NoRes
    /\ overall_ok = FALSE
    /\ verdict = None

NextReport == RunFullVerification \/ SetVerdict

SpecReport == InitReport /\ [][NextReport]_vars

\* C21: run_full_verification never raises: for every payload, facts with
\* a missing or null confidence, facts without sources and sentences with
\* empty text or no tokens included, it returns the report
C21_Claim == vpc # "raised"

HasSentenceViolation(res, idx, issue) ==
    \E i \in 1..Len(res.violations) :
        res.violations[i].index = idx /\ res.violations[i].issue = issue

\* C22: every violation of a unit is collected: a fact without sources and
\* with a confidence below its threshold yields 'no_sources' and the
\* low-confidence violation, a sentence with empty text that references an
\* unknown token yields 'empty_sentence_text' and
\* 'unknown_token_in_sentence'
C22_Claim ==
    vpc = "verified" =>
       /\ \A i \in 1..Len(facts) :
             LET f == facts[i]
             IN (f.sources = <<>>
                   /\ ConfOf(f) < (IF f.critical THEN CONF_THRESH_CRITICAL
                                                ELSE CONF_THRESH_DEFAULT))
                => /\ HasViolation(facts_res, f.fact_id, "no_sources")
                   /\ HasViolation(facts_res, f.fact_id,
                                   IF f.critical THEN "low_confidence_critical"
                                                 ELSE "low_confidence_default")
       /\ \A idx \in 1..Len(sentence_map) :
             LET sd == sentence_map[idx]
             IN (Strip(sd.text) = "" /\ Range(sd.tokens) \ Range(all_token_ids) # {})
                => /\ HasSentenceViolation(sentence_res, idx, "empty_sentence_text")
                   /\ HasSentenceViolation(sentence_res, idx, "unknown_token_in_sentence")


\* ------------------------------------------------------------------------
\* The procedural pass of the Filter (SpecFilter)
\* ------------------------------------------------------------------------
\* the evidentiary token types as documented for the procedural pass
DocumentedEvidentiary ==
    {"amount", "fraud_flag", "invest_flag", "scheme_flag", "crypto_flag", "account",
     "channel", "person", "date", "role_label", "article_ref"}

\* the fact is not in the list non_proc of filter_for_qualifier
RemovedByPass(ref) == ref \notin Range(NonProc(heap, merged))

\* C23: in the procedural pass a fact is removed if and only if its text
\* contains a phrase of the procedural list and none of its tokens has an
\* evidentiary type (amount, fraud/invest/scheme/crypto flag, account,
\* channel, person, date, role_label, article_ref); a fact with such a token
\* is absent from the output only through the MAX_FACTS truncation
C23_Claim ==
    pc = "filtered" =>
       \A ref \in Range(merged) :
          LET f == heap[ref]
              evidentiary == TypesOf(f.tokens) \cap DocumentedEvidentiary # {}
          IN /\ RemovedByPass(ref) <=> (Has(TextOf(f), ProcessualLex) /\ ~evidentiary)
             /\ (evidentiary /\ ref \notin Range(filtered)) => Len(merged) > MAX_FACTS


\* ========================================================================
\* The statute classifier (agents/crime_classifier.py); scores in
\* thousandths
\* ========================================================================
ARTICLE_CANDIDATES == <<"189", "190", "214", "216", "217", "218", "301-1">>

\* the keywords of ARTICLE_KEYWORDS a token value contains, as
\* <<article, "core" | "context", keyword>>
KeywordsIn(value) ==
    CASE value = "obman" -> {<<"190", "core", "obman">>}
      [] value = "finansovaya piramida" ->
            {<<"217", "core", "finansovaya piramida">>, <<"217", "core", "piramida">>}
      [] value = "vklad" -> {<<"217", "context", "vklad">>}
      [] OTHER -> {}

\* the keywords found in _fact_text(fact), each counted once
FactKeywords(f) == UNION {KeywordsIn(f.tokens[i].value) : i \in 1..Len(f.tokens)}

\* _get_amounts(fact) is not empty
HasAmounts(f) == \E i \in 1..Len(f.tokens) : f.tokens[i].type = "amount"

\* any("obman" in a.lower() for a in _get_actions(fact))
HasDeceitAction(f) ==
    \E i \in 1..Len(f.tokens) :
        f.tokens[i].type = "action"
          /\ <<"190", "core", "obman">> \in KeywordsIn(f.tokens[i].value)

\* "suspect" in fact.role.lower(), "respons" in fact.role.lower()
SuspectInRole(f) == f.role \in {"suspect_action", "role_suspect"}
ResponsInRole(f) == f.role \in {"responsible_person"}

\* _score_article_for_token(article_id, fact)["score"]
ScoreArticleForToken(art, f) ==
    LET found == FactKeywords(f)
        core == Cardinality({k \in found : k[1] = art /\ k[2] = "core"})
        ctx == Cardinality({k \in found : k[1] = art /\ k[2] = "context"})
    IN core * 1500 + ctx * 500
       + (IF HasAmounts(f) THEN 500 ELSE 0)
       + (IF art = "190" /\ HasDeceitAction(f) THEN 1000 ELSE 0)
       + (IF art = "190" /\ SuspectInRole(f) THEN 500 ELSE 0)
       + (IF art = "189" /\ ResponsInRole(f) THEN 1000 ELSE 0)

RECURSIVE TotalScore(_, _, _)
\* scores[art] after the loop over the facts
TotalScore(art, h, refs) ==
    IF refs = <<>> THEN 0
    ELSE ScoreArticleForToken(art, h[Head(refs)]) + TotalScore(art, h, Tail(refs))

THRESH_PRIMARY == 3000
THRESH_SECONDARY == 2000

RECURSIVE MaxArticle(_, _, _)
\* the loop "if sc > max_score": best = [art, score] so far
MaxArticle(arts, scores, best) ==
    IF arts = <<>> THEN best
    ELSE IF scores[Head(arts)] > best.score
           THEN MaxArticle(Tail(arts), scores, [art |-> Head(arts), score |-> scores[Head(arts)]])
    ELSE MaxArticle(Tail(arts), scores, best)

\* a secondary list that leaves out the maximum-scoring statute whether or
\* not it became primary
SkipMaxScoring(arts, scores, prim) ==
    LET best == MaxArticle(arts, scores, [art |-> None, score |-> 0])
        Other(a) == a # best.art /\ scores[a] >= THRESH_SECONDARY
    IN SelectSeq(arts, Other)

\* the loop that fills secondary
SecondaryOf(arts, scores, prim) ==
    LET Other(a) == a # prim /\ scores[a] >= THRESH_SECONDARY
    IN SelectSeq(arts, Other)

\* classify_by_tokens(facts)
classify_by_tokens(h, refs, valid) ==
    IF refs = <<>>
      THEN [called |-> TRUE, primary |-> None, secondary |-> <<>>, scores |-> <<>>]
    ELSE LET scores == [a \in Range(valid) |-> TotalScore(a, h, refs)]
             best == MaxArticle(valid, scores, [art |-> None, score |-> 0])
             prim == IF best.art # None /\ best.score >= THRESH_PRIMARY
                       THEN best.art ELSE None
         IN [called |-> TRUE, primary |-> prim,
             secondary |-> SecondaryOf(valid, scores, prim), scores |-> scores]

\* classification = classify_by_tokens(routed)
ClassifyFacts ==
    /\ pc = "routed"
    /\ classification' = classify_by_tokens(heap, routed, valid_articles)
    /\ pc' = "classified"
    /\ UNCHANGED <<docs, target_article, heap, tokenized, merged, filtered, routed,
                   primary, secondary, reserve, uuid, probe, conf_out, heap_at_call,
                   rebuilt, run, first_out, valid_articles>>
    /\ UNCHANGED vvars

\* ------------------------------------------------------------------------
\* Specification SpecClassify: classify_by_tokens on lists of facts
\* ------------------------------------------------------------------------
MaxClassFacts == 3

ClassKinds ==
    {Kind({"obman"}, "auto"),                \* 190: 1.5
     Kind({"obman", "amount"}, "auto"),      \* 190: 2.0, every other statute 0.5
     Kind({"piramida"}, "auto"),             \* 217: 3.0
     Kind({"vkladchik"}, "auto"),            \* 217: 0.5
     Kind({"amount", "poluchil"}, "auto"),   \* 190: 1.0, every other statute 0.5
     Kind({"amount"}, "auto")}               \* every statute 0.5

\* VALID_ARTICLES: the candidates that are keys of ALL_AFM_LAWS
ValidArticleLists ==
    {ARTICLE_CANDIDATES, <<"189", "190", "217">>, <<"214", "217", "218">>}

InitClassify ==
    /\ VerifierIdle
    /\ pc = "routed"
    /\ docs = <<>>
    /\ target_article = None
    /\ \E ks \in SeqsUpTo(ClassKinds, MaxClassFacts) :
          heap = [i \in 1..Len(ks) |-> Placed(KindFact(ks[i]), i)]
    /\ routed = Refs(heap)
    /\ tokenized = <<>>
    /\ merged = <<>>
    /\ filtered = <<>>
    /\ primary = <<>>
    /\ secondary = <<>>
    /\ reserve = <<>>
    /\ uuid = 1
    /\ probe = NoProbe
    /\ conf_out = 0 - 1
    /\ heap_at_call = <<>>
    /\ rebuilt = <<>>
    /\ run = 1
    /\ first_out = <<>>
    /\ valid_articles \in ValidArticleLists
    /\ classification = NoClassification

NextClassify == ClassifyFacts

SpecClassify == InitClassify /\ [][NextClassify]_vars

\* the highest total score, and the statutes that have it
TopScore == LET sc == classification.scores
            IN IF \A a \in DOMAIN sc : sc[a] = 0 THEN 0
               ELSE CHOOSE m \in {sc[a] : a \in DOMAIN sc} : \A a \in DOMAIN sc : sc[a] <= m

TopArticles == {a \in DOMAIN classification.scores : classification.scores[a] = TopScore}

\* the first statute of VALID_ARTICLES that has the highest positive score
MaxScoring == MaxArticle(valid_articles, classification.scores,
                         [art |-> None, score |-> 0]).art

\* C24 (as amended): primary is a statute with the maximum total score if
\* and only if that score is at least 3.0, otherwise there is no primary;
\* secondary is exactly the set of statutes other than primary whose score
\* is at least 2.0; primary never appears in secondary
C24_Amended ==
    (pc = "classified" /\ routed # <<>>) =>
       LET c == classification
       IN /\ (c.primary # None) <=> (TopScore >= THRESH_PRIMARY)
          /\ c.primary # None => c.primary \in TopArticles
          /\ Range(c.secondary)
               = {a \in DOMAIN c.scores : a # c.primary /\ c.scores[a] >= THRESH_SECONDARY}
          /\ c.primary \notin Range(c.secondary)

\* C24 as stated: secondary is exactly the set of statutes other than the
\* maximum-scoring one whose score is at least 2.0
C24_Original ==
    (pc = "classified" /\ routed # <<>>) =>
       LET c == classification
       IN /\ (c.primary # None) <=> (TopScore >= THRESH_PRIMARY)
          /\ c.primary # None => c.primary \in TopArticles
          /\ Range(c.secondary)
               = {a \in DOMAIN c.scores : a # MaxScoring
                                          /\ c.scores[a] >= THRESH_SECONDARY}
          /\ c.primary \notin Range(c.secondary)

\* the maximum-scoring statute stays below the primary threshold and is
\* reported as secondary
C24_Witness ==
    /\ pc = "classified"
    /\ routed # <<>>
    /\ classification.primary = None
    /\ MaxScoring \in Range(classification.secondary)


\* ------------------------------------------------------------------------
\* Order of the input and the sorts of the Filter and the Router
\* ------------------------------------------------------------------------
\* the lists that hold the same references as refs, in every order
PermutationsOf(refs) ==
    {p \in [1..Len(refs) -> Range(refs)] : \A i, j \in 1..Len(refs) : p[i] = p[j] => i = j}

MaxOrderBlock == 2

OrderKinds ==
    {Kind({"amount", "poluchil"}, "auto"),   \* suspect_action, confidence 1.0
     Kind({"kaspi"}, "auto"),                \* digital_transfer, 0.25
     Kind({"admin"}, "auto"),                \* admin_action, 0.05
     Kind({"rospis", "phone"}, "auto")}      \* procedural

\* Specification SpecOrder: short lists with repeated kinds through the
\* Filter and the Router
InitOrder ==
    /\ VerifierIdle
    /\ PipeCleared
    /\ pc = "merged"
    /\ target_article = None
    /\ heap \in {TwoBlocks(k1, n1, k2, n2) : k1 \in OrderKinds, n1 \in 1..MaxOrderBlock,
                                             k2 \in OrderKinds, n2 \in 0..MaxOrderBlock}
    /\ merged = Refs(heap)
    /\ filtered = <<>>

NextOrder == FilterFacts \/ RouteFacts

SpecOrder == InitOrder /\ [][NextOrder]_vars

\* C25: every sort of the Filter and of the Router uses a total comparator,
\* two distinct facts never tie: filter_for_qualifier returns the same list
\* for every permutation of its input, and so does route_for_qualifier
C25_Claim ==
    /\ pc = "filtered" =>
          \A p \in PermutationsOf(merged) : FilterForQualifier(heap, p) = filtered
    /\ pc = "routed" =>
          \A p \in PermutationsOf(filtered) :
              Route(heap_at_call, p, target_article).result = routed


\* ------------------------------------------------------------------------
\* Tier order of the routed list
\* ------------------------------------------------------------------------
StrongFact(f) == f.confidence >= CONF_STRONG

\* may fact a stand right before fact b in the strong prefix
InPrimaryOrder(a, b) ==
    \/ RolePriority(a.role) < RolePriority(b.role)
    \/ /\ RolePriority(a.role) = RolePriority(b.role)
       /\ \/ TokenBoost(a.tokens) > TokenBoost(b.tokens)
          \/ /\ TokenBoost(a.tokens) = TokenBoost(b.tokens)
             /\ a.confidence >= b.confidence

C27_Subsumes ==
    (vpc = "verified" /\ sentence_res.ok) =>
       /\ token_res.ok
       /\ overall_ok = (facts_res.ok /\ text_res.verdict = "OK")

\* the sentence check passed on a payload that uses fact tokens, and
\* another check failed
C27_Witness ==
    /\ vpc = "verified"
    /\ sentence_res.ok
    /\ used_tokens # <<>>
    /\ token_res.ok
    /\ ~overall_ok


\* ------------------------------------------------------------------------
\* The roles of the tokenizer and the role tables of the Router
\* ------------------------------------------------------------------------
RouterTargets == {None, "189", "190", "217"}

KnownRole(role) == role \in (ALLOWED \cup BLOCKED) /\ role \notin NormalizeKeys

\* the list the pipeline has produced last
CurrentList ==
    CASE pc = "tokenized" -> tokenized
      [] pc = "merged" -> merged
      [] pc \in {"filtered", "routed"} -> filtered
      [] OTHER -> <<>>

\* C28: every role _detect_role can return is in ALLOWED or BLOCKED and is
\* not a key of NORMALIZE; so for facts of the tokenizer, through Graph and
\* Filter, the Router's normalisation changes no role, its unknown-role
\* branch is not taken, and route_for_qualifier returns the same list for
\* every target_article, None included
C28_Claim ==
    /\ \A role \in DetectedRoles : KnownRole(role)
    /\ \A ref \in Range(CurrentList) : /\ heap[ref].role \in DetectedRoles
                                       /\ KnownRole(heap[ref].role)
    /\ pc = "routed" =>
          /\ \A ref \in Range(filtered) : heap[ref].role = heap_at_call[ref].role
          /\ \A t \in RouterTargets : Route(heap_at_call, filtered, t).result = routed

\* the Router ran without a target article, dropped a fact with a blocked
\* role and returned another one
C28_Witness ==
    /\ pc = "routed"
    /\ target_article = None
    /\ routed # <<>>
    /\ \E ref \in Range(filtered) : heap[ref].role \in BLOCKED /\ ref \notin Range(routed)


\* ------------------------------------------------------------------------
\* Tokens and provenance through the Graph
\* ------------------------------------------------------------------------
\* the list FactGraph.build was called on, and the list it returned
GraphInput == IF pc = "merged" THEN tokenized ELSE merged
GraphOutput == IF pc = "merged" THEN merged ELSE rebuilt

\* the input facts that were merged into the output fact ref
MergedAway(ref) ==
    {r \in Range(GraphInput) :
        /\ r # ref
        /\ heap_at_call[r].role = heap_at_call[ref].role
        /\ MergeKey(heap_at_call[r]) = MergeKey(heap_at_call[ref])}

\* C29: a merge in FactGraph.build never changes the token list of the
\* surviving fact: every output fact is the first-seen input fact of its
\* key and its tokens are the same before and after the Graph
C29_TokensKept ==
    pc \in {"merged", "rebuilt"} =>
       \A ref \in Range(GraphOutput) :
          /\ heap[ref].tokens = heap_at_call[ref].tokens
          /\ \A r \in MergedAway(ref) : r > ref

\* a fact with tokens absorbed another fact
C29_Witness ==
    /\ pc = "merged"
    /\ \E ref \in Range(merged) :
          /\ MergedAway(ref) # {}
          /\ Len(heap[ref].tokens) > 1


\* C30: for every fact FactGraph.build returns on the output of the
\* tokenizer, the (file_id, page) of the source of every token is one of the
\* (file_id, page) pairs of the fact's source_refs, and source_refs is not
\* empty
C30_Provenance ==
    pc = "merged" =>
       \A ref \in Range(merged) :
          LET f == heap[ref]
          IN /\ f.source_refs # <<>>
             /\ \A i \in 1..Len(f.tokens) :
                   SrcKey(f.tokens[i].source) \in SrcKeys(f.source_refs)

\* the Graph returned a fact with tokens that was observed in two files
C30_Witness ==
    /\ pc = "merged"
    /\ docs # <<>>
    /\ \E ref \in Range(merged) :
          /\ heap[ref].tokens # <<>>
          /\ Cardinality(SrcKeys(heap[ref].source_refs)) > 1

====
